---- MODULE Spec2Model ----
(***************************************************************************)
(* RBM_CUDA.CPP: rbm_cuda_wt_init() (best-of-n_rand weight initialiser)     *)
(* and rbm_cuda() (epoch/batch contrastive-divergence training loop) as a   *)
(* state machine.  Every call of an engine primitive (cuda_..., rbm_cuda_..) *)
(* is one step; the engine is a stub whose answers (status, error vector,   *)
(* increment, weight, gradient length and dot product) are drawn from the   *)
(* sets in arg.stub.  C doubles are modelled as exact rationals <<n, d>>.   *)
(***************************************************************************)
EXTENDS Integers, Sequences, FiniteSets, TLC

(***************************************************************************)
(* Bounds of the model                                                     *)
(***************************************************************************)
NC == 3
NInputs == 2
MaxBatches == 2
MaxEpochs == 3
MaxNoImp == 1
MaxRand == 3
LongEpochs == 253
RateEpochs == 2

(***************************************************************************)
(* Exact rational arithmetic standing for the double arithmetic            *)
(***************************************************************************)
RECURSIVE GCD(_, _)
GCD(a, b) == IF b = 0 THEN a ELSE GCD(b, a % b)

Abs(x) == IF x < 0 THEN -x ELSE x

Norm(n, d) ==
    LET g == GCD(Abs(n), d) IN <<n \div g, d \div g>>

R(n, d) == Norm(n, d)

Zero == <<0, 1>>
One == <<1, 1>>

RMul(a, b) ==
    LET g1 == GCD(Abs(a[1]), b[2])
        g2 == GCD(Abs(b[1]), a[2])
    IN  Norm((a[1] \div g1) * (b[1] \div g2), (a[2] \div g2) * (b[2] \div g1))

RAdd(a, b) ==
    LET g == GCD(a[2], b[2])
        l == (a[2] \div g) * b[2]
    IN  Norm(a[1] * (l \div a[2]) + b[1] * (l \div b[2]), l)

RSub(a, b) == RAdd(a, <<-b[1], b[2]>>)

RDivInt(a, k) == RMul(a, <<1, k>>)

\* a < b; a denominator 0 with numerator 1 stands for a value above every
\* finite one (1.e40).
RLess(a, b) ==
    LET g == GCD(a[2], b[2])
        da == IF g = 0 THEN a[2] ELSE a[2] \div g
        db == IF g = 0 THEN b[2] ELSE b[2] \div g
    IN  a[1] * db < b[1] * da

RLeq(a, b) == ~RLess(b, a)

RAbs(a) == <<Abs(a[1]), a[2]>>

RMin(a, b) == IF RLess(b, a) THEN b ELSE a

\* (int) x for a double x: truncation toward zero
IntCast(a) == IF a[1] >= 0 THEN a[1] \div a[2] ELSE -((-a[1]) \div a[2])

\* sqrt on the perfect squares the stub produces
Sqrt(n) == CHOOSE r \in 0..n : r * r = n

RECURSIVE SumVec(_, _)
SumVec(v, n) == IF n = 0 THEN 0 ELSE v[n] + SumVec(v, n - 1)

(***************************************************************************)
(* Program constants                                                       *)
(***************************************************************************)
ERROR_INSUFFICIENT_MEMORY == 1
ERROR_CUDA_MEMORY == 2
ERROR_CUDA_ERROR == 3

\* return -1.0
Sentinel == <<-1, 1>>

\* best_err = 1.e40, above every sum of squared differences of 0-1 data
BestErrInit == <<1, 0>>

\* a double local that has not been assigned yet
Uninit == <<0, 0>>

\* a double that is read before anything was stored in it holds whatever the
\* stack held: any value, -1.0 among them
Indeterminate == {<<-1, 1>>, <<0, 1>>, <<1, 3>>}

ReadDouble(x) == IF x = Uninit THEN Indeterminate ELSE {x}

\* an int that is read before anything was stored in it
IndeterminateInt == {-1, 0, 7}

\* the constants of the deterministic stream
IA == 16807
IM == 2147483647
IQ == 127773
IR == 2836

\* an advance that leaves a negative value as it is
Advance_no_correction(r) ==
    LET q == r \div IQ
    IN  IA * (r - q * IQ) - IR * q

\* k = randnum / IQ ; randnum = IA * (randnum - k * IQ) - IR * k ;
\* if (randnum < 0) randnum += IM
Advance(r) ==
    LET q == r \div IQ
        t == IA * (r - q * IQ) - IR * q
    IN  IF t < 0 THEN t + IM ELSE t

\* the k that the advance leaves behind
Quotient(r) == r \div IQ


(***************************************************************************)
(* Pure computations of the two functions                                  *)
(***************************************************************************)
\* a status test that takes only negative values for failures
CallFailed_negative(rv) == rv < 0

\* if (ret_val) { audit ; return -1.0 ; }
CallFailed(rv) == rv # 0

\* the three statuses of rbm_cuda_init that end the run
InitFailed(rv) ==
    \/ rv = ERROR_INSUFFICIENT_MEMORY
    \/ rv = ERROR_CUDA_MEMORY
    \/ rv = ERROR_CUDA_ERROR

\* 1.e-8 and 1.0 - 1.e-8
MeanFloor == <<1, 100000000>>

MeanCeil == RSub(One, MeanFloor)

\* data_mean[ivis] += dptr[ivis] over the first n rows
RECURSIVE ColumnSum(_, _, _)
ColumnSum(data, n, ivis) ==
    IF n = 0 THEN Zero ELSE RAdd(ColumnSum(data, n - 1, ivis), data[n][ivis])

\* the two tests without the one against 1.0 - 1.e-8
ClampMean_no_ceiling(m) == IF RLess(m, MeanFloor) THEN MeanFloor ELSE m

\* if (data_mean[ivis] < 1.e-8) ... ; if (data_mean[ivis] > 1.0 - 1.e-8) ...
ClampMean(m) ==
    LET low == IF RLess(m, MeanFloor) THEN MeanFloor ELSE m
    IN  IF RLess(MeanCeil, low) THEN MeanCeil ELSE low

\* the data-statistics loops
DataMean(data, nc, n_inputs) ==
    [ivis \in 1..n_inputs |-> ClampMean(RDivInt(ColumnSum(data, nc, ivis), nc))]

\* n_in_batch = (nc - n_done) / (n_batches - ibatch)
\* every batch an equal share of the whole, the remainder dropped
NInBatch_equal_share(nc, done, n_batches, ib) == nc \div n_batches

NInBatch(nc, done, n_batches, ib) == (nc - done) \div (n_batches - ib)

\* the loop that finds max_batch before the engine starts, from batch ib on;
\* st holds n_done, max_batch and n_in_batch
RECURSIVE MaxBatchFrom(_, _, _, _)
MaxBatchFrom(nc, n_batches, ib, st) ==
    IF ib >= n_batches THEN st
    ELSE LET n == NInBatch(nc, st.n_done, n_batches, ib)
         IN  MaxBatchFrom(nc, n_batches, ib + 1,
                          [n_done |-> st.n_done + n,
                           max_batch |-> IF n > st.max_batch THEN n ELSE st.max_batch,
                           n_in_batch |-> n])

\* n_done = max_batch = 0 ; for (ibatch=0 ; ibatch<n_batches ; ibatch++) ...
MaxBatch(nc, n_batches, n_in_batch0) ==
    MaxBatchFrom(nc, n_batches, 0,
                 [n_done |-> 0, max_batch |-> 0, n_in_batch |-> n_in_batch0])

\* shuffle_index[icase] = icase
IdentityIndex(nc) == [icase \in 0..(nc - 1) |-> icase]

\* values of unifrand_fast (): the ends of [0, 1] and two values inside
Unifrand == {Zero, <<1, 2>>, <<99, 100>>, One}

\* j = (int) (unifrand_fast () * i) ; if (j >= i) j = i - 1
SwapIndex(u, i) ==
    LET j == IntCast(RMul(u, <<i, 1>>))
    IN  IF j >= i THEN i - 1 ELSE j

RECURSIVE FisherYates(_, _, _)
\* a pass that copies shuffle_index[j] down and does not store k back
FisherYates_overwrite(idx, i, u) ==
    IF i > 1
      THEN FisherYates([idx EXCEPT ![i - 1] = idx[SwapIndex(u[i], i)]], i - 1, u)
      ELSE idx

\* while (i > 1): the element at j changes places with the last of the first
\* i; u[i] is the draw made with i elements left
FisherYates(idx, i, u) ==
    IF i > 1
      THEN LET j == SwapIndex(u[i], i)
               k == idx[i - 1]
               moved == [idx EXCEPT ![i - 1] = idx[j]]
           IN  FisherYates([moved EXCEPT ![j] = k], i - 1, u)
      ELSE idx

\* an epoch loop that runs once more than asked
EpochLoopTest_inclusive(epoch, max_epochs) == epoch <= max_epochs

\* for (i_epoch=0 ; i_epoch<max_epochs ; i_epoch++)
EpochLoopTest(epoch, max_epochs) == epoch < max_epochs

\* (int) (chain_length + 0.5)
ChainSteps(cl) == IntCast(RAdd(cl, <<1, 2>>))

\* dot /= sqrt ( len_this * len_prev )
NormalizedDot(dot, len_this, prev) == RDivInt(dot, Sqrt(len_this * prev))

\* the heuristic thresholds without the clamp at 1.0
AdaptRate_no_upper_clamp(lr, dot) ==
    LET stepped ==
            IF RLess(<<1, 2>>, dot) THEN RMul(lr, <<6, 5>>)
            ELSE IF RLess(<<3, 10>>, dot) THEN RMul(lr, <<11, 10>>)
            ELSE IF RLess(dot, <<-1, 2>>) THEN RMul(lr, <<5, 6>>)
            ELSE IF RLess(dot, <<-3, 10>>) THEN RMul(lr, <<10, 11>>)
            ELSE lr
    IN  IF RLess(stepped, <<1, 1000>>) THEN <<1, 1000>> ELSE stepped

\* learning_rate after the heuristic thresholds and the two clamps
AdaptRate(lr, dot) ==
    LET stepped ==
            IF RLess(<<1, 2>>, dot) THEN RMul(lr, <<6, 5>>)
            ELSE IF RLess(<<3, 10>>, dot) THEN RMul(lr, <<11, 10>>)
            ELSE IF RLess(dot, <<-1, 2>>) THEN RMul(lr, <<5, 6>>)
            ELSE IF RLess(dot, <<-3, 10>>) THEN RMul(lr, <<10, 11>>)
            ELSE lr
        capped == IF RLess(One, stepped) THEN One ELSE stepped
    IN  IF RLess(capped, <<1, 1000>>) THEN <<1, 1000>> ELSE capped

\* momentum damped from |dot| = 0.3 on
AdaptMomentum_inclusive(m, dot) ==
    IF RLeq(<<3, 10>>, RAbs(dot)) THEN RMul(m, <<2, 3>>) ELSE m

\* if (fabs(dot) > 0.3) momentum /= 1.5
AdaptMomentum(m, dot) ==
    IF RLess(<<3, 10>>, RAbs(dot)) THEN RMul(m, <<2, 3>>) ELSE m

\* escape_key_pressed || user_pressed_escape ()
EscapePressed(flag, pending) == flag \/ pending

\* a test after each batch that leaves out i_epoch
BatchEscape_any_epoch(epoch, flag, pending) == EscapePressed(flag, pending)

\* the test after each batch:
\* if (i_epoch && (escape_key_pressed || user_pressed_escape ())) break
BatchEscape(epoch, flag, pending) == epoch # 0 /\ EscapePressed(flag, pending)

\* a test after the batch loop that never fires
EpochEscape_never(epoch, flag, pending) == FALSE

\* the test after the batch loop, of the same form
EpochEscape(epoch, flag, pending) == epoch # 0 /\ EscapePressed(flag, pending)

\* escape_key_pressed once user_pressed_escape () has run: a pending ESCape
\* key press is moved into the flag, which stays set until the caller clears it
PolledFlag(flag, pending) == flag \/ pending

\* max_inc / max_weight
Ratio(inc, weight) == RMul(inc, <<weight[2], weight[1]>>)

\* if (max_inc / max_weight < convergence_crit) break
Converged_or_equal(inc, weight, crit) == RLeq(Ratio(inc, weight), crit)

\* if (max_inc / max_weight < convergence_crit) break
Converged(inc, weight, crit) == RLess(Ratio(inc, weight), crit)

\* an improvement test that also takes a tie for an improvement
CritImproved_or_tied(epoch, ratio, best) == epoch = 0 \/ RLeq(ratio, best)

\* if (i_epoch == 0 || max_inc / max_weight < best_crit)
CritImproved(epoch, ratio, best) == epoch = 0 \/ RLess(ratio, best)

\* an annealing that adds the pull toward end_momentum without the decay
AnnealMomentum_no_decay(m, end_momentum) ==
    RAdd(m, RMul(<<1, 100>>, end_momentum))

\* momentum = 0.99 * momentum + 0.01 * end_momentum
AnnealMomentum(m, end_momentum) ==
    RAdd(RMul(<<99, 100>>, m), RMul(<<1, 100>>, end_momentum))

\* an annealing step that does not scale the previous value down
AnnealChain_overshoot(cl, rate, n_chain_end) == RAdd(cl, RMul(rate, <<n_chain_end, 1>>))

\* chain_length = (1.0 - n_chain_rate) * chain_length + n_chain_rate * n_chain_end
AnnealChain(cl, rate, n_chain_end) ==
    RAdd(RMul(RSub(One, rate), cl), RMul(rate, <<n_chain_end, 1>>))

\* a ceiling that also raises a rate below it
Ceiling_unconditional(n, limit, cap, lr) == IF n > limit THEN cap ELSE lr

\* the five stall-triggered ceilings, applied in sequence
Ceiling(n, limit, cap, lr) == IF n > limit /\ RLess(cap, lr) THEN cap ELSE lr

StallCeilings(n, lr) ==
    Ceiling(n, 250, R(2, 1000),
      Ceiling(n, 200, R(5, 1000),
        Ceiling(n, 150, <<1, 100>>,
          Ceiling(n, 100, R(2, 100),
            Ceiling(n, 50, <<3, 100>>, lr)))))

\* an improvement test that also takes a tie
Improved_or_tied(err, best) == RLeq(err, best)

\* if (error < best_err)
Improved(err, best) == RLess(err, best)

\* return best_err / (nc * n_inputs)  and  error /= nc * n_inputs
Normalized(err, nc, n_inputs) == RDivInt(err, nc * n_inputs)

\* the parameters that trial irand draws from unifrand_fast()
TrialParams(i) == [src |-> "trial", k |-> i]

\* the caller's buffers at entry, a work vector never written, the device copy
CallerParams == [src |-> "caller", k |-> 0]
Unwritten == [src |-> "unwritten", k |-> 0]
Updated(p) == [src |-> "device", k |-> IF p.src = "device" THEN p.k + 1 ELSE 1]

(***************************************************************************)
(* Engine stubs and call arguments                                         *)
(***************************************************************************)
ErrVec(k) == [i \in 1..NInputs |-> IF i <= k THEN 1 ELSE 0]

\* a column of the data: all 0, all 1, all 1/2, a single 1, a single 0
ColumnKinds == {"zeros", "ones", "halves", "single_one", "single_zero"}

ColumnEntry(kind, icase) ==
    CASE kind = "zeros" -> Zero
      [] kind = "ones" -> One
      [] kind = "halves" -> <<1, 2>>
      [] kind = "single_one" -> IF icase = 1 THEN One ELSE Zero
      [] kind = "single_zero" -> IF icase = 1 THEN Zero ELSE One

\* nc rows of n_inputs entries in [0,1]
DataOf(kinds, nc) ==
    [icase \in 1..nc |-> [ivis \in 1..Len(kinds) |-> ColumnEntry(kinds[ivis], icase)]]

DefaultKinds == [ivis \in 1..NInputs |-> IF ivis = 1 THEN "single_one" ELSE "halves"]

BaseStub ==
    [rets |-> {0, 1},
     init_rets |-> {0, ERROR_INSUFFICIENT_MEMORY, ERROR_CUDA_MEMORY, ERROR_CUDA_ERROR},
     errs |-> {ErrVec(1)},
     incs |-> {<<2, 1>>},
     weights |-> {<<1, 1>>},
     lens |-> {4},
     dots |-> {Zero},
     unif |-> {One},
     may_cancel |-> FALSE]

BaseArg ==
    [fn |-> "rbm_cuda", nc |-> NC, n_inputs |-> NInputs, n_batches |-> 1,
     max_epochs |-> 1, max_no_imp |-> 1, convergence_crit |-> <<1, 2>>,
     learning_rate |-> <<1, 2>>, start_momentum |-> Zero, end_momentum |-> Zero,
     n_chain_start |-> 1, n_chain_end |-> 1, n_chain_rate |-> <<1, 2>>,
     n_rand |-> 0, data |-> DataOf(DefaultKinds, NC), greedy_mean_field |-> FALSE,
     stub |-> BaseStub]

\* control flow: epochs, batches, convergence, stall, cancellation
ControlArgs ==
    { [BaseArg EXCEPT !.n_batches = nb, !.max_epochs = me, !.max_no_imp = mn,
                      !.convergence_crit = cc,
                      !.stub = [BaseStub EXCEPT !.errs = {ErrVec(1), ErrVec(2)},
                                                !.weights = {<<1, 1>>, <<2, 1>>, <<4, 1>>},
                                                !.may_cancel = TRUE]] :
        nb \in 1..MaxBatches, me \in 0..MaxEpochs, mn \in 0..MaxNoImp,
        cc \in {<<1, 2>>, One} }

\* learning-rate and momentum adaptation over every class of dot
RateArgs ==
    { [BaseArg EXCEPT !.n_batches = 2, !.max_epochs = RateEpochs,
                      !.max_no_imp = RateEpochs, !.learning_rate = lr,
                      !.start_momentum = <<1, 2>>, !.end_momentum = One,
                      !.stub = [BaseStub EXCEPT !.lens = {1, 4},
                                                !.dots = {<<-1, 1>>, <<-2, 5>>, Zero,
                                                          <<2, 5>>, One}]] :
        lr \in {<<1, 2000>>, <<1, 1000>>, <<1, 2>>, One, <<2, 1>>} }

\* normalized dots on and around the four thresholds, with cancellation
ThresholdArgs ==
    { [BaseArg EXCEPT !.n_batches = 2, !.max_epochs = 2, !.max_no_imp = 2,
                      !.learning_rate = lr,
                      !.start_momentum = <<1, 2>>, !.end_momentum = <<1, 2>>,
                      !.stub = [BaseStub EXCEPT !.lens = {1},
                                                !.dots = {<<-3, 5>>, <<-1, 2>>, <<-3, 10>>,
                                                          <<-1, 5>>, <<3, 10>>, <<1, 2>>,
                                                          <<3, 5>>},
                                                !.may_cancel = TRUE]] :
        lr \in {<<1, 1000>>, <<1, 2>>, One} }

\* chain-length annealing
ChainArgs ==
    { [BaseArg EXCEPT !.max_epochs = MaxEpochs, !.max_no_imp = MaxEpochs,
                      !.n_chain_start = c[1], !.n_chain_end = c[2],
                      !.n_chain_rate = c[3]] :
        c \in {<<1, 3, <<1, 2>>>>, <<3, 1, <<1, 2>>>>, <<2, 2, <<1, 2>>>>,
               <<0, 2, <<1, 4>>>>, <<1, 2, <<9, 10>>>>, <<1, 0, <<1, 2>>>>} }

\* runs long enough for the stall counter to pass every ceiling, with a rate
\* that climbs back after each ceiling and with a rate below all of them
StallArgs ==
    { [BaseArg EXCEPT !.max_epochs = LongEpochs, !.max_no_imp = LongEpochs,
                      !.learning_rate = c[1],
                      !.stub = [BaseStub EXCEPT !.dots = {Zero, c[2]}]] :
        c \in {<<One, <<4, 1>>>>, <<<<1, 1000>>, <<-4, 1>>>>} }

\* rbm_cuda_wt_init
WtInitArgs ==
    { [BaseArg EXCEPT !.fn = "wt_init", !.n_rand = nr, !.n_batches = nb,
                      !.stub = [BaseStub EXCEPT !.errs = {ErrVec(1), ErrVec(2)},
                                                !.may_cancel = TRUE]] :
        nr \in 0..MaxRand, nb \in 1..MaxBatches }

\* the partition into batches, for every nc and n_batches up to NC + 1
PartArgs ==
    { [BaseArg EXCEPT !.fn = f, !.nc = n, !.n_batches = nb, !.max_epochs = 2,
                      !.max_no_imp = 2, !.n_rand = 2,
                      !.data = DataOf(DefaultKinds, n)] :
        f \in {"rbm_cuda", "wt_init"}, n \in 1..(NC + 1), nb \in 1..(NC + 1) }

\* the shuffle of every epoch, for every nc up to NC + 1
ShuffleArgs ==
    { [BaseArg EXCEPT !.nc = n, !.max_epochs = 2, !.max_no_imp = 2,
                      !.data = DataOf(DefaultKinds, n),
                      !.stub = [BaseStub EXCEPT !.unif = Unifrand]] :
        n \in 1..(NC + 1) }

\* the deterministic stream, with and without greedy_mean_field, under a
\* lengthening chain and every shuffle draw
SeedArgs ==
    { [BaseArg EXCEPT !.nc = n, !.n_batches = 2, !.max_epochs = 2, !.max_no_imp = 2,
                      !.n_chain_start = 1, !.n_chain_end = 3,
                      !.greedy_mean_field = g,
                      !.data = DataOf(DefaultKinds, n),
                      !.stub = [BaseStub EXCEPT !.unif = Unifrand]] :
        n \in {1, NC}, g \in BOOLEAN }

\* the data statistics of both functions
DataArgs ==
    { [BaseArg EXCEPT !.fn = f, !.nc = n, !.n_rand = 1, !.data = DataOf(kinds, n)] :
        f \in {"rbm_cuda", "wt_init"}, n \in {1, NC},
        kinds \in [1..NInputs -> ColumnKinds] }

\* momentum schedules: falling, rising, from zero, to zero, level, and one
\* that starts below zero, each with damped and undamped batches
MomentumArgs ==
    { [BaseArg EXCEPT !.n_batches = 2, !.max_epochs = MaxEpochs,
                      !.max_no_imp = MaxEpochs,
                      !.start_momentum = c[1], !.end_momentum = c[2],
                      !.stub = [BaseStub EXCEPT !.lens = {1},
                                                !.dots = {Zero, One}]] :
        c \in {<<One, <<1, 2>>>>, <<<<1, 2>>, <<9, 10>>>>, <<Zero, <<1, 2>>>>,
               <<One, Zero>>, <<One, One>>, <<<<-1, 2>>, <<1, 2>>>>} }

Scenarios ==
    ControlArgs \cup RateArgs \cup ThresholdArgs \cup ChainArgs \cup StallArgs \cup WtInitArgs \cup DataArgs
        \cup PartArgs \cup ShuffleArgs \cup SeedArgs \cup MomentumArgs

(***************************************************************************)
(* State                                                                   *)
(***************************************************************************)
VARIABLES
    arg, pc, ret, term, ret_val, n_failed,
    i_epoch, ibatch, ichain, n_done, istart, istop, n_in_batch,
    error, err_vec, most_recent_correct_error,
    max_inc, max_weight, best_crit, n_no_improvement,
    learning_rate, momentum, chain_length, len_prev,
    escape_key_pressed, key_pending,
    engine_up, dev,
    w, in_bias, hid_bias,
    irand, best_err, w_best, in_bias_best, hid_bias_best,
    epoch_mon, last_full, ratios, trial_errs,
    data_mean, max_batch, shuffle_index, dev_shuffle,
    w_fresh, n_download, err_from, n_recon, ranges,
    last_d,
    randnum, k, n_adv, adv_in_batch, k_ref

ctl == <<pc, ret, term>>
call == <<ret_val, n_failed>>
loops == <<i_epoch, ibatch, ichain>>
part == <<n_done, istart, istop, n_in_batch>>
errv == <<error, err_vec, most_recent_correct_error>>
conv == <<max_inc, max_weight, best_crit, n_no_improvement>>
hyper == <<learning_rate, momentum, chain_length, len_prev>>
esc == <<escape_key_pressed, key_pending>>
engine == <<engine_up, dev>>
bufs == <<w, in_bias, hid_bias>>
trial == <<irand, best_err, w_best, in_bias_best, hid_bias_best>>
\* history: the batches and error entries summed in the current epoch, and
\* whether an epoch with fewer than n_batches batches was ever taken as complete;
\* the latest epoch that ran every batch and passed the end-of-epoch ESCape
\* test; the ratio of every epoch that computed one; the error of every trial
ghost == <<epoch_mon, last_full, ratios, trial_errs>>
\* the scratch buffers filled before the engine starts, and the shuffle index
\* the engine holds
prep == <<data_mean, max_batch, shuffle_index, dev_shuffle>>
\* history: whether the two orientations of W on the device agree; the calls of
\* cuda_params_from_device; the epoch and batch whose cuda_recon_error wrote
\* err_vec; the calls of cuda_recon_error in the current batch; the ranges
\* [istart, istop) fetched in the current epoch or trial
\* last_d is history as well: the normalized dot of the latest batch that
\* adapted the learning rate
audit == <<w_fresh, n_download, err_from, n_recon, ranges>>

\* the deterministic stream: its value and the quotient left in k by the
\* latest advance or by the shuffle; history: the advances of the run and of
\* the current batch, and the k of a run that differs from this one in nothing
\* but its shuffle draws, all of which are 1.0
stream == <<randnum, k, n_adv, adv_in_batch, k_ref>>

vars == <<arg, ctl, call, loops, part, errv, conv, hyper, esc, engine, bufs, trial, ghost,
         prep, audit, last_d, stream>>

Training == arg.fn = "rbm_cuda"

Init ==
    /\ arg \in Scenarios
    /\ pc = "init" /\ ret = Uninit /\ term = "Running"
    /\ ret_val = 0 /\ n_failed = 0
    /\ i_epoch = 0 /\ ibatch = 0 /\ ichain = 0
    /\ n_done = 0 /\ istart = 0 /\ istop = 0 /\ n_in_batch = 0
    /\ error = Uninit /\ most_recent_correct_error = Uninit
    /\ err_vec \in (IF Training /\ arg.n_chain_start = 0 THEN arg.stub.errs ELSE {ErrVec(0)})
    /\ max_inc = Uninit /\ max_weight = Uninit /\ best_crit = Uninit /\ n_no_improvement = 0
    /\ learning_rate = arg.learning_rate /\ momentum = Uninit /\ chain_length = Uninit
    /\ len_prev = 0
    /\ escape_key_pressed \in (IF arg.stub.may_cancel THEN BOOLEAN ELSE {FALSE})
    /\ key_pending = FALSE
    /\ engine_up = FALSE /\ dev = <<Unwritten, Unwritten, Unwritten>>
    /\ w = CallerParams /\ in_bias = CallerParams /\ hid_bias = CallerParams
    /\ irand = 0 /\ best_err = Uninit
    /\ w_best = Unwritten /\ in_bias_best = Unwritten /\ hid_bias_best = Unwritten
    /\ epoch_mon = [nb |-> 0, sum |-> 0, partial |-> FALSE]
    /\ last_full = [epoch |-> -1, err |-> Uninit] /\ ratios = <<>> /\ trial_errs = <<>>
    /\ data_mean = <<>> /\ max_batch = 0 /\ shuffle_index = <<>> /\ dev_shuffle = <<>>
    /\ w_fresh = TRUE /\ n_download = 0 /\ err_from = [epoch |-> -1, batch |-> -1]
    /\ n_recon = 0 /\ ranges = <<>>
    /\ last_d = Uninit
    /\ randnum = 0 /\ n_adv = 0 /\ adv_in_batch = 0
    /\ k \in (IF Training /\ arg.greedy_mean_field /\ arg.nc < 2
                THEN IndeterminateInt ELSE {0})
    /\ k_ref = k


(***************************************************************************)
(* Helpers of the actions                                                  *)
(***************************************************************************)
\* the status of a primitive is stored; a failure ends the run with -1.0
Return(rv, failed, next) ==
    /\ ret_val' = rv
    /\ n_failed' = IF rv # 0 THEN n_failed + 1 ELSE n_failed
    /\ pc' = IF failed THEN "failed" ELSE next
    /\ ret' = IF failed THEN Sentinel ELSE ret

Status(failed, t) == IF failed THEN "Failed" ELSE t

\* one advance of the stream made for a primitive of the batch
AdvanceStream ==
    /\ k' = Quotient(randnum)
    /\ k_ref' = Quotient(randnum)
    /\ randnum' = Advance(randnum)
    /\ n_adv' = n_adv + 1

\* the chain loop test  ichain < (int) (chain_length + 0.5)
ChainNext(ic) == IF ic < ChainSteps(chain_length) THEN "sample_hidden2" ELSE "update_in_bias"

(***************************************************************************)
(* rbm_cuda                                                                *)
(***************************************************************************)
Train_rbm_cuda_init ==
    /\ pc = "init" /\ Training
    /\ \E rv \in arg.stub.init_rets :
         LET failed == InitFailed(rv) IN
         /\ Return(rv, failed,
                   IF EpochLoopTest(0, arg.max_epochs) THEN "shuffle" ELSE "download")
         /\ term' = IF failed THEN "Failed"
                    ELSE IF EpochLoopTest(0, arg.max_epochs) THEN term ELSE "Exhausted"
         /\ IF failed
              THEN UNCHANGED <<engine, momentum, chain_length>>
              ELSE /\ engine_up' = TRUE
                   /\ dev' = <<w, in_bias, hid_bias>>
                   /\ momentum' = arg.start_momentum
                   /\ chain_length' = <<arg.n_chain_start, 1>>
    /\ data_mean' = DataMean(arg.data, arg.nc, arg.n_inputs)
    /\ shuffle_index' = IdentityIndex(arg.nc)
    /\ LET st == MaxBatch(arg.nc, arg.n_batches, n_in_batch) IN
         /\ max_batch' = st.max_batch
         /\ n_done' = st.n_done
         /\ n_in_batch' = st.n_in_batch
         /\ ibatch' = IF 0 < arg.n_batches THEN arg.n_batches ELSE 0
    /\ randnum' = 1
    /\ UNCHANGED <<arg, k, n_adv, adv_in_batch, k_ref, dev_shuffle, audit, last_d, i_epoch,
                   ichain, istart, istop, errv, conv, learning_rate, len_prev, esc, bufs,
                   trial, ghost>>

\* the shuffle of the epoch, cuda_shuffle_to_device, then the resets of the epoch
Train_cuda_shuffle_to_device ==
    /\ pc = "shuffle" /\ Training
    /\ \E u \in [2..arg.nc -> arg.stub.unif] :
         /\ shuffle_index' = FisherYates(shuffle_index, arg.nc, u)
         /\ k' = IF arg.nc >= 2 THEN shuffle_index'[SwapIndex(u[2], 2)] ELSE k
    /\ k_ref' = IF arg.nc >= 2 THEN IdentityIndex(arg.nc)[1] ELSE k_ref
    /\ \E rv \in arg.stub.rets :
         LET failed == CallFailed(rv) IN
         /\ Return(rv, failed, IF 0 < arg.n_batches THEN "fetch" ELSE "epoch_cancel")
         /\ term' = Status(failed, term)
         /\ IF failed
              THEN UNCHANGED <<istart, n_done, error, max_inc, ibatch, epoch_mon, ranges,
                               dev_shuffle>>
              ELSE /\ dev_shuffle' = shuffle_index'
                   /\ ranges' = <<>>
                   /\ istart' = 0
                   /\ n_done' = 0
                   /\ error' = Zero
                   /\ max_inc' = Zero
                   /\ ibatch' = 0
                   /\ epoch_mon' = [epoch_mon EXCEPT !.nb = 0, !.sum = 0]
    /\ UNCHANGED <<arg, randnum, n_adv, adv_in_batch, data_mean, max_batch, last_d, w_fresh,
                   n_download, err_from, n_recon, i_epoch, ichain, istop, n_in_batch,
                   err_vec, most_recent_correct_error, max_weight,
                   best_crit, n_no_improvement, hyper, esc, engine, bufs, trial, last_full,
                   ratios, trial_errs>>

Train_cuda_fetch_vis1 ==
    /\ pc = "fetch" /\ Training
    /\ n_in_batch' = NInBatch(arg.nc, n_done, arg.n_batches, ibatch)
    /\ istop' = istart + n_in_batch'
    /\ \E rv \in arg.stub.rets :
         /\ Return(rv, CallFailed(rv), "vis_to_hid")
         /\ term' = Status(CallFailed(rv), term)
    /\ n_recon' = 0
    /\ ranges' = Append(ranges, [istart |-> istart, istop |-> istop'])
    /\ IF ~arg.greedy_mean_field
         THEN AdvanceStream /\ adv_in_batch' = 1
         ELSE adv_in_batch' = 0 /\ UNCHANGED <<randnum, k, n_adv, k_ref>>
    /\ UNCHANGED <<arg, prep, last_d, w_fresh, n_download, err_from, loops, n_done, istart, errv,
                   conv, hyper, esc, engine, bufs, trial, ghost>>

Train_cuda_vis_to_hid ==
    /\ pc = "vis_to_hid" /\ Training
    /\ \E rv \in arg.stub.rets :
         /\ Return(rv, CallFailed(rv), ChainNext(0))
         /\ term' = Status(CallFailed(rv), term)
         /\ ichain' = IF CallFailed(rv) THEN ichain ELSE 0
    /\ UNCHANGED <<arg, stream, prep, last_d, audit, i_epoch, ibatch, part, errv, conv, hyper, esc, engine, bufs,
                   trial, ghost>>

Train_cuda_sample_hidden2 ==
    /\ pc = "sample_hidden2" /\ Training
    /\ \E rv \in arg.stub.rets :
         /\ Return(rv, CallFailed(rv), "hid_to_vis")
         /\ term' = Status(CallFailed(rv), term)
    /\ AdvanceStream /\ adv_in_batch' = adv_in_batch + 1
    /\ UNCHANGED <<arg, prep, last_d, audit, loops, part, errv, conv, hyper, esc, engine, bufs, trial, ghost>>

Train_cuda_hid_to_vis ==
    /\ pc = "hid_to_vis" /\ Training
    /\ \E rv \in arg.stub.rets :
         /\ Return(rv, CallFailed(rv), IF ichain = 0 THEN "recon_error" ELSE "vis2_to_hid2")
         /\ term' = Status(CallFailed(rv), term)
    /\ AdvanceStream /\ adv_in_batch' = adv_in_batch + 1
    /\ UNCHANGED <<arg, prep, last_d, audit, loops, part, errv, conv, hyper, esc, engine, bufs, trial, ghost>>

Train_cuda_recon_error ==
    /\ pc = "recon_error" /\ Training
    /\ \E rv \in arg.stub.rets, ev \in arg.stub.errs :
         /\ Return(rv, CallFailed(rv), "vis2_to_hid2")
         /\ term' = Status(CallFailed(rv), term)
         /\ err_vec' = IF CallFailed(rv) THEN err_vec ELSE ev
         /\ err_from' = IF CallFailed(rv) THEN err_from
                         ELSE [epoch |-> i_epoch, batch |-> ibatch]
    /\ n_recon' = n_recon + 1
    /\ UNCHANGED <<arg, stream, prep, last_d, w_fresh, n_download, ranges, loops, part, error,
                   most_recent_correct_error, conv, hyper, esc, engine, bufs, trial, ghost>>

Train_cuda_vis2_to_hid2 ==
    /\ pc = "vis2_to_hid2" /\ Training
    /\ \E rv \in arg.stub.rets :
         /\ Return(rv, CallFailed(rv), ChainNext(ichain + 1))
         /\ term' = Status(CallFailed(rv), term)
         /\ ichain' = IF CallFailed(rv) THEN ichain ELSE ichain + 1
    /\ UNCHANGED <<arg, stream, prep, last_d, audit, i_epoch, ibatch, part, errv, conv, hyper, esc, engine, bufs,
                   trial, ghost>>

\* an input bias update that also writes the updated vector to the caller
Train_cuda_update_in_bias_host_copy ==
    /\ pc = "update_in_bias" /\ Training
    /\ \E rv \in arg.stub.rets :
         /\ Return(rv, CallFailed(rv), "update_hid_bias")
         /\ term' = Status(CallFailed(rv), term)
         /\ dev' = IF CallFailed(rv) THEN dev ELSE [dev EXCEPT ![2] = Updated(dev[2])]
         /\ in_bias' = dev'[2]
    /\ UNCHANGED <<arg, stream, prep, last_d, audit, loops, part, errv, conv, hyper, esc, engine_up, w, hid_bias, trial,
                   ghost>>

Train_cuda_update_in_bias ==
    /\ pc = "update_in_bias" /\ Training
    /\ \E rv \in arg.stub.rets :
         /\ Return(rv, CallFailed(rv), "update_hid_bias")
         /\ term' = Status(CallFailed(rv), term)
         /\ dev' = IF CallFailed(rv) THEN dev ELSE [dev EXCEPT ![2] = Updated(dev[2])]
    /\ UNCHANGED <<arg, stream, prep, last_d, audit, loops, part, errv, conv, hyper, esc, engine_up, bufs, trial, ghost>>

Train_cuda_update_hid_bias ==
    /\ pc = "update_hid_bias" /\ Training
    /\ \E rv \in arg.stub.rets :
         /\ Return(rv, CallFailed(rv), "update_weights")
         /\ term' = Status(CallFailed(rv), term)
         /\ dev' = IF CallFailed(rv) THEN dev ELSE [dev EXCEPT ![3] = Updated(dev[3])]
    /\ AdvanceStream /\ adv_in_batch' = adv_in_batch + 1
    /\ UNCHANGED <<arg, prep, last_d, audit, loops, part, errv, conv, hyper, esc, engine_up, bufs, trial, ghost>>

\* a weight update that goes on to cuda_max_inc_w without the transpose
Train_cuda_update_weights_no_transpose ==
    /\ pc = "update_weights" /\ Training
    /\ \E rv \in arg.stub.rets :
         /\ Return(rv, CallFailed(rv), "max_inc_w")
         /\ term' = Status(CallFailed(rv), term)
         /\ dev' = IF CallFailed(rv) THEN dev ELSE [dev EXCEPT ![1] = Updated(dev[1])]
         /\ w_fresh' = IF CallFailed(rv) THEN w_fresh ELSE FALSE
    /\ UNCHANGED <<arg, stream, prep, last_d, n_download, err_from, n_recon, ranges, loops, part, errv, conv,
                   hyper, esc, engine_up, bufs, trial, ghost>>

Train_cuda_update_weights ==
    /\ pc = "update_weights" /\ Training
    /\ \E rv \in arg.stub.rets :
         /\ Return(rv, CallFailed(rv), "transpose")
         /\ term' = Status(CallFailed(rv), term)
         /\ dev' = IF CallFailed(rv) THEN dev ELSE [dev EXCEPT ![1] = Updated(dev[1])]
         /\ w_fresh' = IF CallFailed(rv) THEN w_fresh ELSE FALSE
    /\ UNCHANGED <<arg, stream, prep, last_d, n_download, err_from, n_recon, ranges, loops, part, errv, conv,
                   hyper, esc, engine_up, bufs, trial, ghost>>

\* cuda_transpose, then  error += err_vec[ivis]  over the inputs
Train_cuda_transpose ==
    /\ pc = "transpose" /\ Training
    /\ \E rv \in arg.stub.rets :
         LET failed == CallFailed(rv)
             s == SumVec(err_vec, arg.n_inputs)
         IN
         /\ Return(rv, failed, "max_inc_w")
         /\ term' = Status(failed, term)
         /\ error' = IF failed THEN error ELSE RAdd(error, <<s, 1>>)
         /\ epoch_mon' = IF failed THEN epoch_mon
                         ELSE [epoch_mon EXCEPT !.nb = @ + 1, !.sum = @ + s]
         /\ w_fresh' = IF failed THEN w_fresh ELSE TRUE
    /\ UNCHANGED <<arg, stream, prep, last_d, n_download, err_from, n_recon, ranges, loops, part, err_vec,
                   most_recent_correct_error, conv, hyper, esc,
                   engine, bufs, trial, last_full, ratios, trial_errs>>

Train_cuda_max_inc_w ==
    /\ pc = "max_inc_w" /\ Training
    /\ \E rv \in arg.stub.rets, dtemp \in arg.stub.incs :
         /\ Return(rv, CallFailed(rv), "batch_cancel")
         /\ term' = Status(CallFailed(rv), term)
         /\ max_inc' = IF ~CallFailed(rv) /\ RLess(max_inc, dtemp) THEN dtemp ELSE max_inc
    /\ UNCHANGED <<arg, stream, prep, last_d, audit, loops, part, errv, max_weight, best_crit, n_no_improvement, hyper,
                   esc, engine, bufs, trial, ghost>>

\* a test after each batch that clears the flag as the two other tests do
Train_batch_cancel_clears_flag ==
    /\ pc = "batch_cancel" /\ Training
    /\ pc' = IF BatchEscape(i_epoch, escape_key_pressed, key_pending)
               THEN "epoch_cancel" ELSE "len_dot"
    /\ IF i_epoch # 0
         THEN /\ escape_key_pressed' = FALSE
              /\ key_pending' = FALSE
         ELSE UNCHANGED esc
    /\ UNCHANGED <<arg, stream, prep, last_d, audit, ret, term, call, loops, part, errv, conv, hyper, engine, bufs,
                   trial, ghost>>

\* if (i_epoch && (escape_key_pressed || user_pressed_escape ())) break
Train_batch_cancel ==
    /\ pc = "batch_cancel" /\ Training
    /\ pc' = IF BatchEscape(i_epoch, escape_key_pressed, key_pending)
               THEN "epoch_cancel" ELSE "len_dot"
    /\ IF i_epoch # 0 /\ ~escape_key_pressed
         THEN /\ escape_key_pressed' = PolledFlag(escape_key_pressed, key_pending)
              /\ key_pending' = FALSE
         ELSE UNCHANGED esc
    /\ UNCHANGED <<arg, stream, prep, last_d, audit, ret, term, call, loops, part, errv, conv, hyper, engine, bufs,
                   trial, ghost>>

Train_cuda_len_dot ==
    /\ pc = "len_dot" /\ Training
    /\ \E rv \in arg.stub.rets, len \in arg.stub.lens, dot \in arg.stub.dots :
         LET failed == CallFailed(rv)
             first == i_epoch = 0 /\ ibatch = 0
         IN
         /\ Return(rv, failed, IF ibatch + 1 < arg.n_batches THEN "fetch" ELSE "epoch_cancel")
         /\ term' = Status(failed, term)
         /\ IF failed
              THEN UNCHANGED <<hyper, n_done, istart, ibatch, last_d>>
              ELSE /\ len_prev' = len
                   /\ learning_rate' =
                        IF first THEN learning_rate
                        ELSE AdaptRate(learning_rate, NormalizedDot(dot, len, len_prev))
                   /\ momentum' =
                        IF first THEN momentum
                        ELSE AdaptMomentum(momentum, NormalizedDot(dot, len, len_prev))
                   /\ last_d' = IF first THEN last_d
                                ELSE NormalizedDot(dot, len, len_prev)
                   /\ UNCHANGED chain_length
                   /\ n_done' = n_done + n_in_batch
                   /\ istart' = istop
                   /\ ibatch' = ibatch + 1
    /\ UNCHANGED <<arg, stream, prep, audit, i_epoch, ichain, istop, n_in_batch, errv, conv, esc,
                   engine, bufs, trial, ghost>>

\* the end-of-epoch ESCape test, then  error /= nc * n_inputs
Train_epoch_cancel ==
    /\ pc = "epoch_cancel" /\ Training
    /\ IF EpochEscape(i_epoch, escape_key_pressed, key_pending)
         THEN /\ escape_key_pressed' = FALSE
              /\ key_pending' = FALSE
              /\ pc' = "download"
              /\ term' = "Cancelled"
              /\ UNCHANGED <<error, most_recent_correct_error, epoch_mon, last_full>>
         ELSE /\ UNCHANGED <<esc, term>>
              /\ IF epoch_mon.nb = arg.n_batches
                   THEN /\ last_full' = [epoch |-> i_epoch,
                                          err |-> R(epoch_mon.sum, arg.nc * arg.n_inputs)]
                        /\ UNCHANGED epoch_mon
                   ELSE /\ epoch_mon' = [epoch_mon EXCEPT !.partial = TRUE]
                        /\ UNCHANGED last_full
              /\ error' = Normalized(error, arg.nc, arg.n_inputs)
              /\ most_recent_correct_error' = error'
              /\ pc' = "max_weight"
    /\ UNCHANGED <<arg, stream, prep, last_d, audit, ret, call, loops, part, err_vec, conv, hyper, engine, bufs, trial,
                   ratios, trial_errs>>

\* cuda_max_inc_w for max_weight, the two convergence tests, the annealing
\* and the stall ceilings
Train_cuda_max_weight ==
    /\ pc = "max_weight" /\ Training
    /\ \E rv \in arg.stub.rets, mw \in arg.stub.weights :
         LET failed == CallFailed(rv)
             ratio == Ratio(max_inc, mw)
             small == Converged(max_inc, mw, arg.convergence_crit)
             imp == CritImproved(i_epoch, ratio, best_crit)
             n1 == IF imp THEN 0 ELSE n_no_improvement + 1
             stalled == ~imp /\ n1 > arg.max_no_imp
             more == EpochLoopTest(i_epoch + 1, arg.max_epochs)
         IN
         /\ ret_val' = rv
         /\ n_failed' = IF rv # 0 THEN n_failed + 1 ELSE n_failed
         /\ ret' = IF failed THEN Sentinel ELSE ret
         /\ IF failed
              THEN /\ pc' = "failed"
                   /\ term' = "Failed"
                   /\ UNCHANGED <<max_weight, best_crit, n_no_improvement, i_epoch,
                                  learning_rate, momentum, chain_length, ratios>>
              ELSE /\ max_weight' = mw
                   /\ ratios' = Append(ratios, ratio)
                   /\ IF small
                        THEN /\ pc' = "download"
                             /\ term' = "Converged(small-gradient)"
                             /\ UNCHANGED <<best_crit, n_no_improvement, i_epoch,
                                            learning_rate, momentum, chain_length>>
                        ELSE /\ best_crit' = IF imp THEN ratio ELSE best_crit
                             /\ n_no_improvement' = n1
                             /\ IF stalled
                                  THEN /\ pc' = "download"
                                       /\ term' = "Converged(stalled)"
                                       /\ UNCHANGED <<i_epoch, learning_rate, momentum,
                                                      chain_length>>
                                  ELSE /\ momentum' = AnnealMomentum(momentum, arg.end_momentum)
                                       /\ chain_length' =
                                            AnnealChain(chain_length, arg.n_chain_rate,
                                                        arg.n_chain_end)
                                       /\ learning_rate' = StallCeilings(n1, learning_rate)
                                       /\ i_epoch' = i_epoch + 1
                                       /\ pc' = IF more THEN "shuffle" ELSE "download"
                                       /\ term' = IF more THEN term ELSE "Exhausted"
    /\ UNCHANGED <<arg, stream, prep, last_d, audit, ibatch, ichain, part, errv, max_inc, len_prev, esc, engine, bufs,
                   trial, epoch_mon, last_full, trial_errs>>

Train_cuda_params_from_device ==
    /\ pc = "download" /\ Training
    /\ n_download' = n_download + 1
    /\ \E rv \in arg.stub.rets :
         /\ Return(rv, CallFailed(rv), "cleanup")
         /\ term' = Status(CallFailed(rv), term)
         /\ IF CallFailed(rv)
              THEN UNCHANGED bufs
              ELSE /\ w' = dev[1]
                   /\ in_bias' = dev[2]
                   /\ hid_bias' = dev[3]
    /\ UNCHANGED <<arg, stream, prep, last_d, w_fresh, err_from, n_recon, ranges, loops, part, errv, conv,
                   hyper, esc, engine, trial, ghost>>

\* rbm_cuda_cleanup () ; ... return most_recent_correct_error
Train_rbm_cuda_cleanup ==
    /\ pc = "cleanup" /\ Training
    /\ engine_up' = FALSE
    /\ ret' \in ReadDouble(most_recent_correct_error)
    /\ pc' = "done"
    /\ UNCHANGED <<arg, stream, prep, last_d, audit, term, call, loops, part, errv, conv, hyper, esc, dev, bufs, trial,
                   ghost>>

(***************************************************************************)
(* rbm_cuda_wt_init                                                        *)
(***************************************************************************)
Initializing == arg.fn = "wt_init"

WtNextBatch(ib) == IF ib < arg.n_batches THEN "wi_fetch" ELSE "wi_trial_end"

\* user_pressed_escape () ; escape_key_pressed = 0 ; ... rbm_cuda_init ;
\* best_err = 1.e40
WtInit_rbm_cuda_init ==
    /\ pc = "init" /\ Initializing
    /\ escape_key_pressed' = FALSE
    /\ key_pending' = FALSE
    /\ \E rv \in arg.stub.init_rets :
         LET failed == InitFailed(rv) IN
         /\ Return(rv, failed, IF 0 < arg.n_rand THEN "wi_shuffle" ELSE "wi_finalize")
         /\ term' = IF failed THEN "Failed"
                    ELSE IF 0 < arg.n_rand THEN term ELSE "Exhausted"
         /\ IF failed
              THEN UNCHANGED <<engine, best_err, shuffle_index>>
              ELSE /\ engine_up' = TRUE
                   /\ dev' = <<w, in_bias, hid_bias>>
                   /\ shuffle_index' = IdentityIndex(arg.nc)
                   /\ best_err' = BestErrInit
    /\ data_mean' = DataMean(arg.data, arg.nc, arg.n_inputs)
    /\ LET st == MaxBatch(arg.nc, arg.n_batches, n_in_batch) IN
         /\ max_batch' = st.max_batch
         /\ n_done' = st.n_done
         /\ n_in_batch' = st.n_in_batch
         /\ ibatch' = IF 0 < arg.n_batches THEN arg.n_batches ELSE 0
    /\ UNCHANGED <<arg, stream, dev_shuffle, audit, last_d, i_epoch, ichain, istart, istop, errv, conv, hyper,
                   bufs, irand, w_best, in_bias_best, hid_bias_best, ghost>>

\* error = 0.0 ; if (irand == 0) cuda_shuffle_to_device
WtInit_cuda_shuffle_to_device ==
    /\ pc = "wi_shuffle" /\ Initializing
    /\ error' = Zero
    /\ IF irand = 0
         THEN \E rv \in arg.stub.rets :
                /\ Return(rv, CallFailed(rv), "wi_params")
                /\ term' = Status(CallFailed(rv), term)
                /\ dev_shuffle' = IF CallFailed(rv) THEN dev_shuffle ELSE shuffle_index
         ELSE /\ pc' = "wi_params"
              /\ UNCHANGED <<ret, term, call, dev_shuffle>>
    /\ UNCHANGED <<arg, stream, data_mean, max_batch, shuffle_index, last_d, audit, loops, part, err_vec, most_recent_correct_error, conv, hyper, esc,
                   engine, bufs, trial, ghost>>

\* the trial weights and biases are drawn, then cuda_params_to_device
WtInit_cuda_params_to_device ==
    /\ pc = "wi_params" /\ Initializing
    /\ w' = TrialParams(irand)
    /\ hid_bias' = TrialParams(irand)
    /\ in_bias' = TrialParams(irand)
    /\ \E rv \in arg.stub.rets :
         /\ Return(rv, CallFailed(rv), WtNextBatch(0))
         /\ term' = Status(CallFailed(rv), term)
         /\ IF CallFailed(rv)
              THEN UNCHANGED <<dev, n_done, istart, ibatch, ranges>>
              ELSE /\ dev' = <<w', in_bias', hid_bias'>>
                   /\ ranges' = <<>>
                   /\ n_done' = 0
                   /\ istart' = 0
                   /\ ibatch' = 0
    /\ UNCHANGED <<arg, stream, prep, last_d, w_fresh, n_download, err_from, n_recon, i_epoch, ichain,
                   istop, n_in_batch, errv, conv, hyper, esc, engine_up, trial, ghost>>

WtInit_cuda_fetch_vis1 ==
    /\ pc = "wi_fetch" /\ Initializing
    /\ n_in_batch' = NInBatch(arg.nc, n_done, arg.n_batches, ibatch)
    /\ istop' = istart + n_in_batch'
    /\ \E rv \in arg.stub.rets :
         /\ Return(rv, CallFailed(rv), "wi_vis_to_hid")
         /\ term' = Status(CallFailed(rv), term)
    /\ ranges' = Append(ranges, [istart |-> istart, istop |-> istop'])
    /\ UNCHANGED <<arg, stream, prep, last_d, w_fresh, n_download, err_from, n_recon, loops, n_done,
                   istart, errv, conv, hyper, esc, engine, bufs, trial, ghost>>

WtInit_cuda_vis_to_hid ==
    /\ pc = "wi_vis_to_hid" /\ Initializing
    /\ \E rv \in arg.stub.rets :
         /\ Return(rv, CallFailed(rv), "wi_hid_to_vis_direct")
         /\ term' = Status(CallFailed(rv), term)
    /\ UNCHANGED <<arg, stream, prep, last_d, audit, loops, part, errv, conv, hyper, esc, engine, bufs, trial, ghost>>

WtInit_cuda_hid_to_vis_direct ==
    /\ pc = "wi_hid_to_vis_direct" /\ Initializing
    /\ \E rv \in arg.stub.rets :
         /\ Return(rv, CallFailed(rv), "wi_recon_error")
         /\ term' = Status(CallFailed(rv), term)
    /\ UNCHANGED <<arg, stream, prep, last_d, audit, loops, part, errv, conv, hyper, esc, engine, bufs, trial, ghost>>

\* ret_val = cuda_recon_error (...) is stored and not tested; err_vec is summed
\* whatever the engine left in it
WtInit_cuda_recon_error ==
    /\ pc = "wi_recon_error" /\ Initializing
    /\ \E rv \in arg.stub.rets, ev \in arg.stub.errs :
         /\ ret_val' = rv
         /\ n_failed' = IF rv # 0 THEN n_failed + 1 ELSE n_failed
         /\ err_vec' = ev
         /\ error' = RAdd(error, <<SumVec(ev, arg.n_inputs), 1>>)
    /\ istart' = istop
    /\ n_done' = n_done + n_in_batch
    /\ ibatch' = ibatch + 1
    /\ pc' = WtNextBatch(ibatch + 1)
    /\ UNCHANGED <<arg, stream, prep, last_d, audit, ret, term, i_epoch, ichain, istop, n_in_batch,
                   most_recent_correct_error, conv, hyper, esc, engine, bufs, trial, ghost>>

\* the improvement test, then the ESCape test, then the next trial
WtInit_trial_end ==
    /\ pc = "wi_trial_end" /\ Initializing
    /\ trial_errs' = Append(trial_errs, error)
    /\ IF Improved(error, best_err)
         THEN /\ best_err' = error
              /\ hid_bias_best' = hid_bias
              /\ w_best' = w
              /\ in_bias_best' = in_bias
         ELSE UNCHANGED <<best_err, hid_bias_best, w_best, in_bias_best>>
    /\ escape_key_pressed' = FALSE
    /\ key_pending' = FALSE
    /\ IF EscapePressed(escape_key_pressed, key_pending)
         THEN /\ pc' = "wi_finalize"
              /\ term' = "Cancelled"
              /\ UNCHANGED irand
         ELSE /\ irand' = irand + 1
              /\ pc' = IF irand + 1 < arg.n_rand THEN "wi_shuffle" ELSE "wi_finalize"
              /\ term' = IF irand + 1 < arg.n_rand THEN term ELSE "Exhausted"
    /\ UNCHANGED <<arg, stream, prep, last_d, audit, ret, call, loops, part, errv, conv, hyper, engine, bufs, epoch_mon,
                   last_full, ratios>>

\* a finalize step that treats an ESCape as a failure
WtInit_finalize_sentinel_on_cancel ==
    /\ pc = "wi_finalize" /\ Initializing
    /\ hid_bias' = hid_bias_best
    /\ w' = w_best
    /\ in_bias' = in_bias_best
    /\ engine_up' = FALSE
    /\ ret' = IF term = "Cancelled" THEN Sentinel
              ELSE Normalized(best_err, arg.nc, arg.n_inputs)
    /\ pc' = "done"
    /\ UNCHANGED <<arg, stream, prep, last_d, audit, term, call, loops, part, errv, conv, hyper, esc, dev, trial, ghost>>

\* the best parameters are copied back, rbm_cuda_cleanup (),
\* return best_err / (nc * n_inputs)
WtInit_finalize ==
    /\ pc = "wi_finalize" /\ Initializing
    /\ hid_bias' = hid_bias_best
    /\ w' = w_best
    /\ in_bias' = in_bias_best
    /\ engine_up' = FALSE
    /\ ret' = Normalized(best_err, arg.nc, arg.n_inputs)
    /\ pc' = "done"
    /\ UNCHANGED <<arg, stream, prep, last_d, audit, term, call, loops, part, errv, conv, hyper, esc, dev, trial, ghost>>

(***************************************************************************)
(* The user                                                                *)
(***************************************************************************)
PressEscape ==
    /\ arg.stub.may_cancel
    /\ pc \notin {"done", "failed"}
    /\ ~key_pending /\ ~escape_key_pressed
    /\ key_pending' = TRUE
    /\ UNCHANGED <<arg, stream, prep, last_d, audit, ctl, call, loops, part, errv, conv, hyper, escape_key_pressed,
                   engine, bufs, trial, ghost>>

Next ==
    \/ Train_rbm_cuda_init
    \/ Train_cuda_shuffle_to_device
    \/ Train_cuda_fetch_vis1
    \/ Train_cuda_vis_to_hid
    \/ Train_cuda_sample_hidden2
    \/ Train_cuda_hid_to_vis
    \/ Train_cuda_recon_error
    \/ Train_cuda_vis2_to_hid2
    \/ Train_cuda_update_in_bias
    \/ Train_cuda_update_hid_bias
    \/ Train_cuda_update_weights
    \/ Train_cuda_transpose
    \/ Train_cuda_max_inc_w
    \/ Train_batch_cancel
    \/ Train_cuda_len_dot
    \/ Train_epoch_cancel
    \/ Train_cuda_max_weight
    \/ Train_cuda_params_from_device
    \/ Train_rbm_cuda_cleanup
    \/ WtInit_rbm_cuda_init
    \/ WtInit_cuda_shuffle_to_device
    \/ WtInit_cuda_params_to_device
    \/ WtInit_cuda_fetch_vis1
    \/ WtInit_cuda_vis_to_hid
    \/ WtInit_cuda_hid_to_vis_direct
    \/ WtInit_cuda_recon_error
    \/ WtInit_trial_end
    \/ WtInit_finalize
    \/ PressEscape

Spec == Init /\ [][Next]_vars

(***************************************************************************)
(* Properties                                                              *)
(***************************************************************************)
\* the minimum of the first n elements of s
MinUpTo(s, n) ==
    LET seen == {s[pos] : pos \in 1..n}
    IN  CHOOSE x \in seen : \A y \in seen : RLeq(x, y)

MinOf(s) == MinUpTo(s, Len(s))

\* the first position of s that holds its minimum
FirstMin(s) ==
    CHOOSE i \in 1..Len(s) :
        /\ s[i] = MinOf(s)
        /\ \A j \in 1..(i - 1) : s[j] # MinOf(s)

\* what the run has done so far, apart from the user's key presses
progress == <<ctl, call, loops, part, errv, conv, hyper, engine, bufs, trial, ghost>>

\* C1: in rbm_cuda a primitive that returns a non-success status ends the run
\* at once in Failed(engine-error) with the return value -1.0; the call is not
\* repeated and no further batch, epoch or update primitive runs after it.
C1_EngineFailureAborts ==
    /\ [](Training /\ n_failed > 0 =>
            /\ pc = "failed" /\ term = "Failed" /\ ret = Sentinel
            /\ ret_val # 0 /\ n_failed = 1)
    /\ [][Training /\ pc = "failed" => UNCHANGED progress]_vars

\* a primitive failed in the second batch of the second epoch
C1_Witness ==
    /\ Training /\ pc = "failed" /\ ret = Sentinel
    /\ i_epoch = 1 /\ ibatch = 1 /\ dev[2].k = 4 /\ dev[1].k = 3

\* C2: in rbm_cuda_wt_init a failure status of any primitive called during
\* the run makes the function return -1.0, never a normalized error.
C2_SentinelOnAnyFailure ==
    Initializing /\ n_failed > 0 /\ pc \in {"done", "failed"} => ret = Sentinel

\* C3: in rbm_cuda_wt_init, after k completed trials best_err is the minimum
\* of the k trial errors and the snapshot holds the parameters of the first
\* trial that attained it; best_err never increases; a return that is not a
\* failure, with n_rand >= 1, leaves the snapshot in w, in_bias and hid_bias and
\* returns best_err / (nc * n_inputs).
C3_BestTrialKept ==
    /\ [](Initializing /\ Len(trial_errs) >= 1 =>
            /\ best_err = MinOf(trial_errs)
            /\ w_best = TrialParams(FirstMin(trial_errs) - 1)
            /\ in_bias_best = TrialParams(FirstMin(trial_errs) - 1)
            /\ hid_bias_best = TrialParams(FirstMin(trial_errs) - 1))
    /\ [](Initializing /\ pc = "done" /\ arg.n_rand >= 1 =>
            /\ Len(trial_errs) >= 1
            /\ w = w_best /\ in_bias = in_bias_best /\ hid_bias = hid_bias_best
            /\ ret = Normalized(MinOf(trial_errs), arg.nc, arg.n_inputs))
    /\ [][Initializing /\ pc # "init" => RLeq(best_err', best_err)]_vars

\* three trials, the second and the third tie for the minimum
C3_Witness ==
    /\ Initializing /\ pc = "done" /\ Len(trial_errs) = 3
    /\ RLess(trial_errs[2], trial_errs[1]) /\ trial_errs[3] = trial_errs[2]
    /\ w = TrialParams(1)

InRange(lr) == RLeq(<<1, 1000>>, lr) /\ RLeq(lr, One)

\* a batch has ended and another batch is about to start
BatchBoundary == Training /\ pc = "fetch" /\ (i_epoch > 0 \/ ibatch > 0)

\* the batches completed so far
BatchesDone == i_epoch * arg.n_batches + ibatch

\* C5 as claimed: learning_rate lies in [0.001, 1.0] at every batch boundary,
\* the one after the first batch of epoch 0 included.
C5_RateInRangeAtEveryBoundary == BatchBoundary => InRange(learning_rate)

\* C5 as amended: learning_rate lies in [0.001, 1.0] at every batch boundary
\* that follows a batch in which the adaptation ran (every batch but the first
\* of epoch 0), and at the boundary before that too when the caller's
\* learning_rate lies in [0.001, 1.0].
C5_RateInRangeOnceAdapted ==
    BatchBoundary /\ (BatchesDone >= 2 \/ InRange(arg.learning_rate)) =>
        InRange(learning_rate)

\* a learning rate of 2.0 at entry, clamped to 1.0 by the first adaptation
C5_Witness ==
    /\ BatchBoundary /\ BatchesDone = 2
    /\ arg.learning_rate = <<2, 1>> /\ learning_rate = One

\* the boundary after the first stall ceiling has lowered the rate to 0.03
C5_CeilingReached ==
    BatchBoundary /\ n_no_improvement > 50 /\ learning_rate = <<3, 100>>

SmallGradient == "Converged(small-gradient)"

Stalled == "Converged(stalled)"

\* the ratio of the latest epoch that reached the convergence tests
LastRatio == ratios[Len(ratios)]

\* C6: rbm_cuda ends in Converged(small-gradient) at the end of the first
\* epoch whose ratio max_inc / max_weight is strictly below convergence_crit:
\* every earlier ratio is at or above the criterion, nothing of the training
\* state moves afterwards, and the error of that epoch is returned.  With a
\* ratio equal to the criterion at epoch 0 and half of it at epoch 1 the run
\* ends at epoch 1.
C6_SmallGradientEndsRun ==
    /\ [](Training =>
            \A pos \in 1..(Len(ratios) - 1) : RLeq(arg.convergence_crit, ratios[pos]))
    /\ [](Training /\ Len(ratios) >= 1 /\ RLess(LastRatio, arg.convergence_crit) =>
            /\ term \in {SmallGradient, "Failed"}
            /\ pc \in {"download", "cleanup", "done", "failed"}
            /\ i_epoch = Len(ratios) - 1)
    /\ [](Training /\ term = SmallGradient =>
            /\ Len(ratios) >= 1 /\ RLess(LastRatio, arg.convergence_crit)
            /\ pc = "done" => ret = last_full.err /\ last_full.epoch = i_epoch)
    /\ [][Training /\ term = SmallGradient =>
            UNCHANGED <<loops, part, errv, conv, hyper, dev, ghost>>]_vars

C6_Witness ==
    /\ Training /\ pc = "done" /\ term = SmallGradient /\ i_epoch = 1
    /\ arg.convergence_crit = One /\ ratios = <<One, <<1, 2>>>>
    /\ ret = last_full.err

\* the latest epoch, counted from 1, whose ratio is strictly below all before
LowersAllBefore(s, pos) == \A j \in 1..(pos - 1) : RLess(s[pos], s[j])

LastImprovement(s, n) ==
    CHOOSE pos \in 1..n :
        /\ LowersAllBefore(s, pos)
        /\ \A m \in (pos + 1)..n : ~LowersAllBefore(s, m)

StrictlyIncreasing(s) == \A pos \in 1..(Len(s) - 1) : RLess(s[pos], s[pos + 1])

\* some epoch has reached the stall test: the latest ratio is not below the
\* criterion
StallTested ==
    Training /\ Len(ratios) >= 1 /\ RLeq(arg.convergence_crit, LastRatio)

C7_CounterReset ==
    /\ StallTested /\ Len(ratios) = 3 /\ n_no_improvement = 0
    /\ RLess(ratios[1], ratios[2]) /\ RLess(ratios[3], ratios[1])

\* C8: rbm_cuda_wt_init sees an ESCape only at the end of a trial, after the
\* trial's error has gone through the improvement test; it then runs no
\* further trial, copies the best snapshot of the trials done so far into the
\* live buffers, shuts the engine down and returns best_err / (nc * n_inputs),
\* not -1.0.  With n_rand >= 1 the finalize step is reached only after at
\* least one trial.
C8_CancelKeepsBestTrial ==
    /\ [](Initializing /\ term = "Cancelled" =>
            /\ pc \in {"wi_finalize", "done"}
            /\ Len(trial_errs) = irand + 1
            /\ best_err = MinOf(trial_errs)
            /\ w_best = TrialParams(FirstMin(trial_errs) - 1)
            /\ pc = "done" =>
                 /\ w = w_best /\ in_bias = in_bias_best /\ hid_bias = hid_bias_best
                 /\ ~engine_up
                 /\ ret = Normalized(MinOf(trial_errs), arg.nc, arg.n_inputs)
                 /\ ret # Sentinel)
    /\ [](Initializing /\ arg.n_rand >= 1 /\ pc \in {"wi_finalize", "done"} =>
            Len(trial_errs) >= 1)
    /\ [][Initializing /\ term # "Cancelled" /\ term' = "Cancelled" =>
            /\ pc = "wi_trial_end"
            /\ trial_errs' = Append(trial_errs, error)
            /\ best_err' = MinOf(trial_errs')]_vars
    /\ [][Initializing /\ pc \notin {"init", "wi_trial_end"} => UNCHANGED esc \/ key_pending']_vars
    /\ [][Initializing /\ term = "Cancelled" =>
            UNCHANGED <<irand, trial_errs, best_err, error, dev>>]_vars

\* ESCape after the second of three trials, the second being the better one
C8_Witness ==
    /\ Initializing /\ pc = "done" /\ term = "Cancelled"
    /\ arg.n_rand = 3 /\ Len(trial_errs) = 2
    /\ RLess(trial_errs[2], trial_errs[1]) /\ w = TrialParams(1)

\* C9: while i_epoch = 0 rbm_cuda neither polls nor honours the ESCape: the
\* flag and a pending key are left as they are, no Cancelled termination
\* happens, epoch 0 reaches its end only after all n_batches batches, and a
\* Cancelled run has a completed epoch's error to return.
C9_EpochZeroIgnoresEscape ==
    /\ [][Training /\ i_epoch = 0 =>
            /\ term' # "Cancelled"
            /\ escape_key_pressed' = escape_key_pressed
            /\ key_pending => key_pending']_vars
    /\ [](Training /\ i_epoch = 0 /\ pc \in {"epoch_cancel", "max_weight"} =>
            epoch_mon.nb = arg.n_batches)
    /\ [](Training /\ term = "Cancelled" =>
            /\ i_epoch >= 1 /\ last_full.epoch >= 0
            /\ most_recent_correct_error = last_full.err)

\* ESCape pressed before the second batch of epoch 0, which still completes
C9_Witness ==
    /\ Training /\ i_epoch = 0 /\ pc = "max_weight" /\ arg.n_batches = 2
    /\ key_pending /\ epoch_mon.nb = 2 /\ last_full.epoch = 0

RBetween(x, a, b) == (RLeq(a, x) /\ RLeq(x, b)) \/ (RLeq(b, x) /\ RLeq(x, a))

IMin(a, b) == IF a < b THEN a ELSE b

IMax(a, b) == IF a < b THEN b ELSE a

C10_Shortening ==
    /\ Training /\ arg.n_chain_start = 3 /\ arg.n_chain_end = 1
    /\ i_epoch = 1 /\ chain_length = <<2, 1>> /\ pc = "update_in_bias" /\ ichain = 2

\* twice the sum of a column, every entry being 0, 1/2 or 1
RECURSIVE TwiceColumnSum(_, _, _)
TwiceColumnSum(data, n, ivis) ==
    IF n = 0 THEN 0
    ELSE TwiceColumnSum(data, n - 1, ivis) + (2 * data[n][ivis][1]) \div data[n][ivis][2]

ColumnMean(data, nc, ivis) == R(TwiceColumnSum(data, nc, ivis), 2 * nc)

\* x clamped into [lo, hi]
ClampedInto(x, lo, hi) == IF RLess(x, lo) THEN lo ELSE IF RLess(hi, x) THEN hi ELSE x

\* C11: once the data-statistics loops of either function have run, every
\* element of data_mean is the mean of its column over all nc rows clamped
\* into [1e-8, 1 - 1e-8]: it lies in that interval, so neither data_mean nor
\* 1 - data_mean is zero; an all-zero column gives 1e-8 and an all-one column
\* 1 - 1e-8.
C11_DataMeanClamped ==
    pc # "init" =>
        /\ DOMAIN data_mean = 1..arg.n_inputs
        /\ \A ivis \in 1..arg.n_inputs :
             LET mean == ColumnMean(arg.data, arg.nc, ivis) IN
             /\ data_mean[ivis] = ClampedInto(mean, <<1, 100000000>>, <<99999999, 100000000>>)
             /\ RLeq(<<1, 100000000>>, data_mean[ivis])
             /\ RLeq(data_mean[ivis], <<99999999, 100000000>>)
             /\ data_mean[ivis] # Zero /\ RSub(One, data_mean[ivis]) # Zero
             /\ mean = Zero => data_mean[ivis] = <<1, 100000000>>
             /\ mean = One => data_mean[ivis] = <<99999999, 100000000>>

\* rbm_cuda_wt_init on an all-zero column next to an all-one column
C11_Witness ==
    /\ Initializing /\ pc = "done" /\ arg.nc = NC
    /\ \A icase \in 1..arg.nc : arg.data[icase][1] = Zero /\ arg.data[icase][2] = One
    /\ data_mean[1] = <<1, 100000000>> /\ data_mean[2] = <<99999999, 100000000>>
    /\ ret[2] # 0

\* rbm_cuda on all-zero data
C11_AllZeroTraining ==
    /\ Training /\ pc = "done"
    /\ \A icase \in 1..arg.nc, ivis \in 1..arg.n_inputs : arg.data[icase][ivis] = Zero
    /\ \A ivis \in 1..arg.n_inputs : data_mean[ivis] = <<1, 100000000>>
    /\ ret[2] # 0

\* the chain loop of the current batch is under way
InChain == pc \in {"sample_hidden2", "hid_to_vis", "recon_error", "vis2_to_hid2"}

InChainLabels == {"sample_hidden2", "hid_to_vis", "recon_error", "vis2_to_hid2"}

\* a batch of the current epoch is under way
InBatch ==
    \/ InChain
    \/ pc \in {"fetch", "vis_to_hid", "update_in_bias", "update_hid_bias", "update_weights",
               "transpose", "max_inc_w", "batch_cancel", "len_dot"}

\* an epoch is under way
InEpoch == InBatch \/ pc \in {"shuffle", "epoch_cancel", "max_weight"}

\* what is left of the run of rbm_cuda, most significant first: the part of
\* the function, the epochs left, the part of the epoch, the batches left, the
\* part of the batch, the chain steps left, the part of the chain step
Rank ==
    << CASE pc = "init" -> 4 [] InEpoch -> 3 [] pc = "download" -> 2
         [] pc = "cleanup" -> 1 [] OTHER -> 0,
       IF InEpoch THEN arg.max_epochs - i_epoch ELSE 0,
       CASE pc = "shuffle" -> 3 [] InBatch -> 2 [] pc = "epoch_cancel" -> 1 [] OTHER -> 0,
       IF InBatch THEN arg.n_batches - ibatch ELSE 0,
       CASE pc = "fetch" -> 9 [] pc = "vis_to_hid" -> 8 [] InChain -> 7
         [] pc = "update_in_bias" -> 6 [] pc = "update_hid_bias" -> 5
         [] pc = "update_weights" -> 4 [] pc = "transpose" -> 3 [] pc = "max_inc_w" -> 2
         [] pc = "batch_cancel" -> 1 [] OTHER -> 0,
       IF InChain THEN ChainSteps(chain_length) - ichain ELSE 0,
       CASE pc = "sample_hidden2" -> 3 [] pc = "hid_to_vis" -> 2 [] pc = "recon_error" -> 1
         [] OTHER -> 0 >>

\* a before b in the lexicographic order, from component k on
RECURSIVE LexLessFrom(_, _, _)
LexLessFrom(a, b, pos) ==
    /\ pos <= Len(a)
    /\ \/ a[pos] < b[pos]
       \/ a[pos] = b[pos] /\ LexLessFrom(a, b, pos + 1)

LexLess(a, b) == LexLessFrom(a, b, 1)

\* C12: rbm_cuda always ends: every statement it executes lowers a rank of
\* natural numbers in the lexicographic order, and a run that has not ended
\* has a next statement.  It never starts more than max_epochs epochs, an
\* epoch that passes the end-of-epoch ESCape test has run exactly n_batches
\* batches, the chain loop of a batch stays below (int) (chain_length + 0.5)
\* steps, and a run that no convergence, stall, ESCape or engine failure ends
\* runs exactly max_epochs epochs, downloads the parameters once and, for
\* max_epochs >= 1, returns the normalized error of epoch max_epochs - 1.
C12_TrainingTerminates ==
    /\ [][Training => \/ LexLess(Rank', Rank)
                      \/ Rank' = Rank /\ ~key_pending /\ key_pending']_vars
    /\ [](Training =>
            /\ \A pos \in 1..Len(Rank) : Rank[pos] >= 0
            /\ Rank[1] = 0 <=> pc \in {"done", "failed"}
            /\ pc \in {"done", "failed"} => term # "Running"
            /\ i_epoch <= IMax(arg.max_epochs, 0)
            /\ Len(ratios) <= IMax(arg.max_epochs, 0)
            /\ InEpoch => i_epoch < arg.max_epochs
            /\ epoch_mon.nb <= arg.n_batches
            /\ pc = "max_weight" => epoch_mon.nb = arg.n_batches
            /\ InChain => ichain < ChainSteps(chain_length)
            /\ pc = "update_in_bias" => ichain = ChainSteps(chain_length))
    /\ [](Training /\ term = "Exhausted" =>
            /\ pc \in {"download", "cleanup", "done"}
            /\ i_epoch = IMax(arg.max_epochs, 0)
            /\ Len(ratios) = i_epoch
            /\ pc = "done" =>
                 /\ n_download = 1 /\ ~engine_up
                 /\ w = dev[1] /\ in_bias = dev[2] /\ hid_bias = dev[3]
                 /\ arg.max_epochs >= 1 =>
                      ret = last_full.err /\ last_full.epoch = arg.max_epochs - 1)

\* three epochs of two batches each, none of them ending the run early
C12_Witness ==
    /\ Training /\ pc = "done" /\ term = "Exhausted"
    /\ arg.max_epochs = 3 /\ arg.n_batches = 2 /\ Len(ratios) = 3
    /\ last_full.epoch = 2 /\ ret = last_full.err

\* the calls that read the weights in one of their two orientations
Propagating == pc \in {"vis_to_hid", "hid_to_vis", "vis2_to_hid2"}

\* the call sites that may follow call site p within a batch of rbm_cuda
MayFollow(p) ==
    CASE p = "fetch" -> {"vis_to_hid"}
      [] p = "vis_to_hid" -> {"sample_hidden2", "update_in_bias"}
      [] p = "sample_hidden2" -> {"hid_to_vis"}
      [] p = "hid_to_vis" -> {"recon_error", "vis2_to_hid2"}
      [] p = "recon_error" -> {"vis2_to_hid2"}
      [] p = "vis2_to_hid2" -> {"sample_hidden2", "update_in_bias"}
      [] p = "update_in_bias" -> {"update_hid_bias"}
      [] p = "update_hid_bias" -> {"update_weights"}
      [] p = "update_weights" -> {"transpose"}
      [] p = "transpose" -> {"max_inc_w"}
      [] p = "max_inc_w" -> {"batch_cancel"}
      [] p = "batch_cancel" -> {"len_dot", "epoch_cancel"}
      [] p = "len_dot" -> {"fetch", "epoch_cancel"}

\* C13: within a batch of rbm_cuda the primitives are issued in the order
\* fetch, vis_to_hid, then per chain step sample_hidden2, hid_to_vis (and the
\* reconstruction error on step 0), vis2_to_hid2, then update_in_bias,
\* update_hid_bias, update_weights, transpose, max_inc_w, the ESCape test and
\* len_dot; the chain is entered and left by its loop test alone; and between
\* an update of the weights and the transpose that follows it no call that
\* propagates through the weights is issued.
C13_PrimitiveOrder ==
    /\ [][Training /\ InBatch /\ pc' # pc /\ pc' # "failed" => pc' \in MayFollow(pc)]_vars
    /\ [][Training /\ pc = "batch_cancel" /\ pc' = "epoch_cancel" => i_epoch >= 1]_vars
    /\ [][Training /\ pc \in {"vis_to_hid", "vis2_to_hid2"} /\ pc' \in InChainLabels =>
            ichain' < ChainSteps(chain_length)]_vars
    /\ [][Training /\ pc \in {"vis_to_hid", "vis2_to_hid2"} /\ pc' = "update_in_bias" =>
            ichain' = ChainSteps(chain_length)]_vars
    /\ [](Training /\ pc \notin {"init", "failed"} => (w_fresh <=> pc # "transpose"))
    /\ [](Training /\ Propagating => w_fresh)

\* the second batch of an epoch starts on weights updated and transposed
C13_Witness ==
    /\ Training /\ pc = "vis_to_hid" /\ ibatch = 1 /\ i_epoch = 1
    /\ w_fresh /\ dev[1] = [src |-> "device", k |-> 3]

NormalEnds == {"Converged(small-gradient)", "Converged(stalled)", "Cancelled", "Exhausted"}

UpdateLabels == {"update_in_bias", "update_hid_bias", "update_weights"}

\* C15: every termination of rbm_cuda that is not an engine failure
\* (small-gradient, stalled, cancelled, max_epochs exhausted) has called
\* cuda_params_from_device exactly once, after the last update primitive, has
\* shut the engine down after it, hands the caller the device parameters as
\* they stood after the last batch that ran (those of a partial epoch
\* included), and returns a value other than -1.0; -1.0 after the download was
\* called means that the download failed.
C15_DownloadOnceNeverSentinel ==
    /\ Training => n_download <= 1
    /\ Training /\ n_download = 1 => ~InEpoch /\ pc \notin UpdateLabels
    /\ Training /\ pc = "done" =>
         /\ term \in NormalEnds
         /\ n_download = 1
         /\ ~engine_up
         /\ <<w, in_bias, hid_bias>> = dev
         /\ ret # Sentinel
    /\ Training /\ pc = "failed" /\ n_download = 1 => ret = Sentinel /\ ret_val # 0

\* C15, away from the unassigned return value: the same with a return value
\* other than -1.0 claimed only for max_epochs >= 1
C15_DownloadOnce ==
    /\ Training => n_download <= 1
    /\ Training /\ n_download = 1 => ~InEpoch /\ pc \notin UpdateLabels
    /\ Training /\ pc = "done" =>
         /\ term \in NormalEnds
         /\ n_download = 1
         /\ ~engine_up
         /\ <<w, in_bias, hid_bias>> = dev
         /\ arg.max_epochs >= 1 => ret # Sentinel
    /\ Training /\ pc = "failed" /\ n_download = 1 => ret = Sentinel /\ ret_val # 0

\* a cancelled run whose partial epoch ran one batch of two: the caller holds
\* the parameters updated by the batches of epoch 0 and by that batch
C15_CancelledWithPartialEpoch ==
    /\ Training /\ pc = "done" /\ term = "Cancelled"
    /\ arg.n_batches = 2 /\ epoch_mon.nb = 1 /\ i_epoch = 1
    /\ w = [src |-> "device", k |-> 3]

\* a run with max_epochs = 0 that returns -1.0 although no call failed
C15_SentinelWithoutFailure ==
    Training /\ pc = "done" /\ n_failed = 0 /\ ret = Sentinel

(***************************************************************************)
(* The chain and the reconstruction error of a batch                       *)
(***************************************************************************)
AfterChain == pc \in {"update_in_bias", "update_hid_bias", "update_weights", "transpose"}

\* C16: in every batch of rbm_cuda the chain runs (int) (chain_length + 0.5)
\* steps and cuda_recon_error is called exactly once, on chain step 0; the
\* err_vec added to the error of the epoch after cuda_transpose was written by
\* the cuda_recon_error of that same batch, never by an earlier batch and never
\* by nobody.
C16_ErrVecFromSameBatch ==
    Training =>
      /\ pc = "update_in_bias" => ichain = ChainSteps(chain_length)
      /\ pc = "recon_error" => ichain = 0 /\ n_recon = 0
      /\ InChain /\ ichain > 0 => n_recon = 1
      /\ AfterChain =>
           /\ n_recon = 1
           /\ err_from = [epoch |-> i_epoch, batch |-> ibatch]

\* C16 for the batches whose chain has at least one step
C16_ErrVecFromSameBatchIfChainRuns ==
    Training =>
      /\ pc = "update_in_bias" => ichain = ChainSteps(chain_length)
      /\ pc = "recon_error" => ichain = 0 /\ n_recon = 0
      /\ InChain /\ ichain > 0 => n_recon = 1
      /\ AfterChain /\ ChainSteps(chain_length) >= 1 =>
           /\ n_recon = 1
           /\ err_from = [epoch |-> i_epoch, batch |-> ibatch]

\* a batch of a later epoch whose chain ran three steps
C16_LongChain ==
    Training /\ pc = "transpose" /\ i_epoch > 0 /\ ichain = 3 /\ n_recon = 1

\* a batch without a chain step adds an err_vec that no call wrote
C16_UnwrittenErrVecAdded ==
    /\ Training /\ pc = "max_inc_w" /\ n_failed = 0
    /\ err_from.epoch = -1 /\ epoch_mon.nb = 1

\* a batch without a chain step adds the err_vec of an earlier epoch
C16_StaleErrVecAdded ==
    /\ Training /\ pc = "max_inc_w" /\ n_failed = 0
    /\ err_from.epoch >= 0 /\ err_from.epoch < i_epoch /\ epoch_mon.nb = 1

(***************************************************************************)
(* The adaptation of the learning rate and of the momentum                 *)
(***************************************************************************)
\* the factor the claim gives for a normalized dot d
RateFactor(d) ==
    CASE RLess(<<1, 2>>, d) -> <<6, 5>>
      [] RLess(<<3, 10>>, d) /\ RLeq(d, <<1, 2>>) -> <<11, 10>>
      [] RLess(d, <<-1, 2>>) -> <<5, 6>>
      [] RLeq(<<-1, 2>>, d) /\ RLess(d, <<-3, 10>>) -> <<10, 11>>
      [] OTHER -> One

MomentumDamped(d) == RLess(<<3, 10>>, d) \/ RLess(d, <<-3, 10>>)

FirstBatch == i_epoch = 0 /\ ibatch = 0

\* a batch completes: cuda_len_dot returned 0
BatchCompletes == Training /\ pc = "len_dot" /\ pc' \notin {"len_dot", "failed"}

\* C17: the batch that has no previous gradient (epoch 0, first batch) only
\* records the gradient length; a batch at which the ESCape test fired never
\* reaches the adaptation; every other batch multiplies learning_rate by 1.2,
\* 1.1, 1/1.2, 1/1.1 or 1 according to the normalized dot d, clamps it to
\* [0.001, 1.0], and divides momentum by 1.5 exactly when |d| > 0.3.  Nothing
\* else between two end-of-epoch steps changes either of them.
C17_AdaptationRule ==
    /\ [][BatchCompletes /\ FirstBatch =>
             /\ learning_rate' = learning_rate
             /\ momentum' = momentum
             /\ last_d' = last_d
             /\ len_prev' \in arg.stub.lens]_vars
    /\ [][BatchCompletes /\ ~FirstBatch =>
             /\ learning_rate' =
                  ClampedInto(RMul(learning_rate, RateFactor(last_d')), <<1, 1000>>, One)
             /\ momentum' = IF MomentumDamped(last_d')
                               THEN RDivInt(RMul(momentum, <<2, 1>>), 3)
                               ELSE momentum]_vars
    /\ [][Training /\ pc = "batch_cancel"
             /\ i_epoch # 0 /\ (escape_key_pressed \/ key_pending) =>
             pc' \in {"batch_cancel", "epoch_cancel"} /\ UNCHANGED <<hyper, last_d>>]_vars
    /\ [][Training /\ <<learning_rate, momentum, len_prev>>' # <<learning_rate, momentum, len_prev>> =>
             pc \in {"init", "len_dot", "max_weight"}]_vars
    /\ [](Training /\ pc = "len_dot" /\ i_epoch # 0 => ~escape_key_pressed)

\* every class of d has adapted the rate of some batch, the clamps have acted
\* at both ends, and a batch was left at the ESCape test after another adapted
C17_RaisedByOnePointTwo ==
    Training /\ pc = "fetch" /\ last_d = <<3, 5>> /\ learning_rate = <<3, 5>>

C17_Witness ==
    /\ Training /\ pc = "done" /\ term = "Cancelled" /\ epoch_mon.nb = 1
    /\ last_d = <<-3, 5>> /\ learning_rate = <<1, 1000>>
    /\ RLess(momentum, arg.start_momentum)

(***************************************************************************)
(* The stall ceilings of the learning rate                                 *)
(***************************************************************************)
\* the ceiling the claim gives for a stall counter n; 1.0 stands for none,
\* every rate of a later epoch being at most 1.0
CeilingFor(n) ==
    IF n > 250 THEN R(2, 1000)
    ELSE IF n > 200 THEN R(5, 1000)
    ELSE IF n > 150 THEN <<1, 100>>
    ELSE IF n > 100 THEN R(2, 100)
    ELSE IF n > 50 THEN <<3, 100>>
    ELSE One

\* the next epoch has begun and its first batch has not adapted the rate yet
FirstBatchOfLaterEpoch ==
    Training /\ i_epoch >= 1 /\ (pc = "shuffle" \/ (InBatch /\ ibatch = 0))

\* the end of an epoch that goes on to another one
EpochContinues == Training /\ pc = "max_weight" /\ i_epoch' = i_epoch + 1

\* C18: when the first batch of the next epoch begins, learning_rate is at
\* most 0.03, 0.02, 0.01, 0.005, 0.002 if the stall counter exceeds 50, 100,
\* 150, 200, 250; the end of an epoch lowers the rate to its ceiling or leaves
\* it alone, never raises it and never takes it below 0.001.
C18_StallCeilings ==
    /\ [](FirstBatchOfLaterEpoch => RLeq(learning_rate, CeilingFor(n_no_improvement)))
    /\ [][EpochContinues =>
             /\ learning_rate' = RMin(learning_rate, CeilingFor(n_no_improvement'))
             /\ RLeq(learning_rate', learning_rate)
             /\ RLeq(<<1, 1000>>, learning_rate) => RLeq(<<1, 1000>>, learning_rate')]_vars

\* the fifth ceiling has lowered a rate that had climbed above it
C18_Witness ==
    /\ FirstBatchOfLaterEpoch /\ pc = "fetch" /\ n_no_improvement > 250
    /\ learning_rate = R(2, 1000) /\ last_d = One

\* a rate below every ceiling is left alone by all five
C18_LowRateUntouched ==
    /\ FirstBatchOfLaterEpoch /\ pc = "fetch" /\ n_no_improvement > 250
    /\ learning_rate = <<1, 1000>>

(***************************************************************************)
(* The partition of the cases into batches                                 *)
(***************************************************************************)
Size(r) == r.istop - r.istart

\* a batch has been fetched and the primitives that take n_in_batch run
BatchFetched ==
    \/ Training /\ InBatch /\ pc # "fetch"
    \/ Initializing /\ pc \in {"wi_vis_to_hid", "wi_hid_to_vis_direct", "wi_recon_error"}

\* C19: in both functions, with nc >= 1 and n_batches >= 1, the ranges
\* [istart, istop) fetched in a trial or epoch start at 0, each begins where
\* the one before it stopped, none runs backwards or past nc, and once all
\* n_batches of them are fetched they end at nc and their sizes add up to nc;
\* any two sizes differ by at most 1; max_batch, found before the engine
\* starts, is at least every n_in_batch handed to a primitive.  (An epoch or
\* trial cut short by a failure has fetched the first ranges of its partition.)
C19_BatchPartition ==
    arg.nc >= 1 /\ arg.n_batches >= 1 =>
      /\ Len(ranges) <= arg.n_batches
      /\ \A pos \in 1..Len(ranges) :
           /\ ranges[pos].istart = IF pos = 1 THEN 0 ELSE ranges[pos - 1].istop
           /\ 0 <= Size(ranges[pos])
           /\ ranges[pos].istop <= arg.nc
           /\ Size(ranges[pos]) <= max_batch
           /\ Size(ranges[pos]) = NInBatch(arg.nc, ranges[pos].istart, arg.n_batches, pos - 1)
      /\ \A j, pos \in 1..Len(ranges) : Size(ranges[j]) - Size(ranges[pos]) <= 1
      /\ Len(ranges) = arg.n_batches =>
           /\ ranges[arg.n_batches].istop = arg.nc
           /\ SumVec([pos \in 1..arg.n_batches |-> Size(ranges[pos])], arg.n_batches) = arg.nc
      /\ BatchFetched =>
           /\ n_in_batch = istop - istart
           /\ ranges[Len(ranges)] = [istart |-> istart, istop |-> istop]
           /\ n_in_batch <= max_batch

\* four cases in three batches of rbm_cuda, second epoch: 1, 1 and 2 cases
C19_Witness ==
    /\ Training /\ i_epoch = 1 /\ pc = "len_dot" /\ max_batch = 2
    /\ ranges = << [istart |-> 0, istop |-> 1], [istart |-> 1, istop |-> 2],
                   [istart |-> 2, istop |-> 4] >>

\* the same partition in the second trial of rbm_cuda_wt_init
C19_WitnessInit ==
    /\ Initializing /\ irand = 1 /\ pc = "wi_trial_end" /\ max_batch = 2
    /\ ranges = << [istart |-> 0, istop |-> 1], [istart |-> 1, istop |-> 2],
                   [istart |-> 2, istop |-> 4] >>

\* more batches than cases: the first batches are empty
C19_EmptyBatches ==
    /\ Training /\ arg.nc = 2 /\ Len(ranges) = 4
    /\ Size(ranges[1]) = 0 /\ Size(ranges[4]) = 1 /\ max_batch = 1

(***************************************************************************)
(* The shuffle index                                                       *)
(***************************************************************************)
IsPermutation(idx, nc) ==
    /\ DOMAIN idx = 0..(nc - 1)
    /\ {idx[icase] : icase \in 0..(nc - 1)} = 0..(nc - 1)

\* the engine has been handed a shuffle index
Uploaded ==
    \/ Training /\ ((InEpoch /\ pc # "shuffle") \/ i_epoch >= 1)
    \/ Initializing /\ pc \in {"wi_params", "wi_fetch", "wi_vis_to_hid", "wi_hid_to_vis_direct",
                                 "wi_recon_error", "wi_trial_end"}

\* C20: every index handed to cuda_shuffle_to_device holds each of 0..nc-1
\* once.  rbm_cuda_wt_init uploads the identity, once, before the first
\* trial's batches.  rbm_cuda uploads, every epoch, the index of the epoch
\* before after one more pass of swaps, whose swap index j satisfies
\* 0 <= j < i for every draw in [0, 1], a draw of 1.0 giving j = i - 1.
C20_ShufflePermutation ==
    /\ [](shuffle_index # <<>> => IsPermutation(shuffle_index, arg.nc))
    /\ [](dev_shuffle # <<>> => IsPermutation(dev_shuffle, arg.nc))
    /\ [](Uploaded /\ pc # "failed" => dev_shuffle = shuffle_index)
    /\ [](Initializing /\ dev_shuffle # <<>> => dev_shuffle = IdentityIndex(arg.nc))
    /\ [][Initializing /\ dev_shuffle' # dev_shuffle => pc = "wi_shuffle" /\ irand = 0]_vars
    /\ [][Training /\ pc = "shuffle" /\ pc' # "shuffle" =>
             IsPermutation(shuffle_index', arg.nc)]_vars
    /\ [](\A u \in arg.stub.unif : \A i \in 2..arg.nc :
             /\ 0 <= SwapIndex(u, i) /\ SwapIndex(u, i) < i
             /\ u = One => SwapIndex(u, i) = i - 1)

\* the second epoch of rbm_cuda has uploaded an index that moved every case
C20_Witness ==
    /\ Training /\ i_epoch = 1 /\ pc = "fetch" /\ arg.nc = NC + 1
    /\ \A icase \in 0..(arg.nc - 1) : dev_shuffle[icase] # icase

\* the second trial of rbm_cuda_wt_init runs on the identity uploaded once
C20_WitnessInit ==
    /\ Initializing /\ irand = 1 /\ pc = "wi_fetch"
    /\ dev_shuffle = IdentityIndex(arg.nc)

(***************************************************************************)
(* The deterministic stream                                                *)
(***************************************************************************)
\* x + y modulo m for x and y in 0..m-1, without leaving 0..m-1 on the way
AddMod(x, y, m) == IF x >= m - y THEN x - (m - y) ELSE x + y

\* a * b modulo m by doubling, for b in 0..m-1
RECURSIVE MulMod(_, _, _)
MulMod(a, b, m) ==
    IF a = 0 THEN 0
    ELSE LET half == MulMod(a \div 2, b, m)
             twice == AddMod(half, half, m)
         IN  IF a % 2 = 1 THEN AddMod(twice, b, m) ELSE twice

\* the largest signed 32-bit value is 2^31 - 1, which is IM
\* the products and the difference of the advance from r stay inside int
Int32Safe(r) ==
    LET q == r \div IQ
        rest == r - q * IQ
    IN  /\ 0 <= q /\ q <= IM \div IR
        /\ q * IQ <= r
        /\ 0 <= rest /\ rest <= IM \div IA
        /\ IA * rest - IR * q > -IM
        /\ IA * rest - IR * q < 0 => IA * rest - IR * q + IM > 0

\* values on and next to the ends of the range and of the quotient classes
StreamSamples ==
    {1, 2, IQ - 1, IQ, IQ + 1, IA, 2 * IQ - 1, 1624379149, 1557810404, IM - IQ, IM - 2, IM - 1}

\* C21: from randnum = 1 on, every advance of the stream gives
\* 16807 * randnum modulo 2^31 - 1; randnum is in 1..2^31-2 whenever a
\* primitive can be handed it; the products and the difference computed on
\* the way stay inside the signed 32-bit range.
C21_StreamIsLehmer ==
    /\ [](Training /\ pc # "init" =>
            /\ 1 <= randnum /\ randnum <= IM - 1
            /\ Int32Safe(randnum))
    /\ [][Training /\ pc # "init" /\ randnum' # randnum =>
             randnum' = MulMod(IA, randnum, IM)]_vars
    /\ [][Training /\ pc # "init" /\ n_adv' # n_adv =>
             n_adv' = n_adv + 1 /\ randnum' = MulMod(IA, randnum, IM)]_vars
    /\ [](\A r \in StreamSamples :
             /\ Int32Safe(r)
             /\ Advance(r) = MulMod(IA, r, IM)
             /\ 1 <= Advance(r) /\ Advance(r) <= IM - 1)

\* the 39th advance of the run is the first whose difference is negative
C21_Witness ==
    /\ Training /\ n_adv = 39 /\ randnum = 2128236579
    /\ k = Quotient(1624379149) /\ pc = "recon_error"

\* the advances the claim gives for a batch
AdvancesOfBatch ==
    (IF arg.greedy_mean_field THEN 0 ELSE 1) + 2 * ChainSteps(chain_length) + 1

\* every advance of the batch has been made
BatchAdvanced ==
    Training /\ pc \in {"update_weights", "transpose", "max_inc_w", "batch_cancel", "len_dot"}

\* the advances of a batch
AdvanceCount ==
    /\ BatchAdvanced => adv_in_batch = AdvancesOfBatch
    /\ Training /\ pc = "vis_to_hid" =>
         adv_in_batch = IF arg.greedy_mean_field THEN 0 ELSE 1
    /\ Training /\ pc = "update_in_bias" =>
         adv_in_batch = AdvancesOfBatch - 1
    /\ Training /\ pc = "shuffle" /\ i_epoch = 0 => n_adv = 0 /\ randnum = 1

\* the stream moves by one advance when the run makes one for a primitive
\* and not otherwise, whatever the primitive returns and whatever the data,
\* the shuffle and the dots are
StreamFollowsCount ==
    /\ Training /\ pc # "init" =>
         /\ n_adv' \in {n_adv, n_adv + 1}
         /\ randnum' = IF n_adv' = n_adv THEN randnum ELSE MulMod(IA, randnum, IM)
    /\ Training /\ pc # "init" /\ n_adv' # n_adv =>
         /\ pc \in {"fetch", "sample_hidden2", "hid_to_vis", "update_hid_bias"}
         /\ pc = "fetch" => ~arg.greedy_mean_field
    /\ Training /\ pc' # pc /\ n_adv' = n_adv =>
         \/ pc \notin {"fetch", "sample_hidden2", "hid_to_vis", "update_hid_bias"}
         \/ pc = "fetch" /\ arg.greedy_mean_field

\* C22: every batch advances the stream once for the fetch unless
\* greedy_mean_field is set, twice per chain step and once for the hidden
\* bias update, so the stream value is a function of the number of advances;
\* the seed of every call is the same in a run that differs in nothing but
\* its shuffle draws, that of cuda_fetch_vis1 included.
C22_SeedsIndependentOfShuffle ==
    /\ []AdvanceCount
    /\ [][StreamFollowsCount]_vars
    /\ [](Training /\ pc = "vis_to_hid" => k = k_ref)

\* C22 for the calls that are handed randnum, and for cuda_fetch_vis1 when
\* greedy_mean_field is not set
C22_StreamSeedsIndependentOfShuffle ==
    /\ []AdvanceCount
    /\ [][StreamFollowsCount]_vars
    /\ [](Training /\ pc = "vis_to_hid" /\ ~arg.greedy_mean_field => k = k_ref)

\* with greedy_mean_field set, the fetch of the first batch of an epoch is
\* handed the element of shuffle_index that the last swap left in k
C22_FetchHandedShuffleElement ==
    /\ Training /\ pc = "vis_to_hid" /\ arg.greedy_mean_field /\ n_failed = 0
    /\ i_epoch = 1 /\ ibatch = 0 /\ k = 2 /\ k_ref = 1

\* a batch of the second epoch with two chain steps has made six advances
C22_SixAdvances ==
    /\ BatchAdvanced /\ ~arg.greedy_mean_field /\ i_epoch = 1
    /\ ChainSteps(chain_length) = 2 /\ adv_in_batch = 6

\* cuda_fetch_vis1 has just been called with k as its fourth argument
FetchCalled == Training /\ pc = "vis_to_hid"

\* C23: with greedy_mean_field not set, the seed handed to cuda_fetch_vis1 is
\* the value of the stream after the advance made for that fetch, a value in
\* 1..2^31-2, as for cuda_sample_hidden2 and cuda_hid_to_vis.
C23_FetchSeedIsStreamValue ==
    FetchCalled /\ ~arg.greedy_mean_field =>
      /\ k = randnum
      /\ 1 <= k /\ k <= IM - 1

\* what the fetch is handed: the quotient of the stream value before the
\* advance by IQ, a value in 0..16806 that is not the stream value
C23_FetchHandedQuotient ==
    FetchCalled /\ ~arg.greedy_mean_field =>
      /\ 0 <= k /\ k <= IM \div IQ
      /\ k # randnum

\* the first fetch of a run is handed 0 while the stream stands at 16807
C23_FirstFetchHandedZero ==
    /\ FetchCalled /\ ~arg.greedy_mean_field /\ n_failed = 0
    /\ i_epoch = 0 /\ ibatch = 0 /\ k = 0 /\ randnum = IA

(***************************************************************************)
(* The engine's start and shutdown, and the caller's buffers               *)
(***************************************************************************)
\* rbm_cuda_init returned 0: the device holds the parameters it was handed
InitSucceeded == dev[1] # Unwritten

Returned == pc \in {"done", "failed"}

\* the engine goes down by rbm_cuda_cleanup only, as the last step of a run
ShutdownIsLastStep ==
    engine_up /\ ~engine_up' => pc \in {"cleanup", "wi_finalize"} /\ pc' = "done"

\* C24: a run of either function whose rbm_cuda_init succeeded has called
\* rbm_cuda_cleanup exactly once when it returns, on every path, those that
\* return -1.0 after a later primitive failed included.
C24_ShutdownOnEveryExit ==
    /\ [](Returned /\ InitSucceeded => ~engine_up)
    /\ [](engine_up => InitSucceeded)
    /\ [][ShutdownIsLastStep]_vars

\* what the code does: the engine is shut down on the returns that are not
\* failures, and left up on every return of -1.0 that follows a successful
\* rbm_cuda_init
C24_ShutdownOnNormalExitOnly ==
    /\ [](pc = "done" /\ InitSucceeded => ~engine_up)
    /\ [](pc = "failed" /\ InitSucceeded => engine_up /\ ret = Sentinel)
    /\ [](engine_up => InitSucceeded)
    /\ [][ShutdownIsLastStep]_vars

\* rbm_cuda has returned -1.0 after an update call failed, the engine still up
C24_EngineLeftUp ==
    /\ Training /\ pc = "failed" /\ engine_up /\ ret = Sentinel
    /\ dev[2] = [src |-> "device", k |-> 1]

\* rbm_cuda_wt_init has returned -1.0 in its second trial, the engine still up
C24_EngineLeftUpInit ==
    Initializing /\ pc = "failed" /\ engine_up /\ irand = 1 /\ ret = Sentinel

CallerBuffers == <<CallerParams, CallerParams, CallerParams>>

\* C25: rbm_cuda writes w, in_bias and hid_bias by cuda_params_from_device
\* only: until that call they hold what the caller passed, through every
\* epoch and batch, so a return of -1.0 for a failure before the download
\* leaves the caller's parameters as they were.
C25_BuffersWrittenByDownloadOnly ==
    /\ [](Training /\ n_download = 0 => bufs = CallerBuffers)
    /\ [](Training /\ pc = "failed" /\ n_download = 0 =>
            ret = Sentinel /\ bufs = CallerBuffers)
    /\ [][Training /\ bufs' # bufs => pc = "download" /\ n_download' = 1]_vars

\* a failure in the second epoch, after the device parameters were updated
C25_Witness ==
    /\ Training /\ pc = "failed" /\ n_download = 0 /\ i_epoch = 1
    /\ dev[1] = [src |-> "device", k |-> 1] /\ dev[2] = [src |-> "device", k |-> 2]
    /\ bufs = CallerBuffers /\ ret = Sentinel

RMax(a, b) == IF RLess(a, b) THEN b ELSE a

MomentumBounded(m) ==
    RLeq(Zero, m) /\ RLeq(m, RMax(arg.start_momentum, arg.end_momentum))

NonNegativeMomenta ==
    RLeq(Zero, arg.start_momentum) /\ RLeq(Zero, arg.end_momentum)

\* C26: with start_momentum >= 0 and end_momentum >= 0, momentum lies in
\* [0, max(start_momentum, end_momentum)] from its assignment on, after every
\* batch and every epoch: a batch leaves it or divides it by 1.5, and the
\* annealing of an epoch puts it between its value and end_momentum.
C26_MomentumBounded ==
    /\ [](Training /\ momentum # Uninit /\ NonNegativeMomenta =>
            MomentumBounded(momentum))
    /\ [][Training /\ momentum # Uninit /\ momentum' # momentum =>
            \/ /\ momentum' = RDivInt(RMul(momentum, <<2, 1>>), 3)
               /\ ibatch' = ibatch + 1
            \/ /\ RBetween(momentum', momentum, arg.end_momentum)
               /\ i_epoch' = i_epoch + 1]_vars

\* a falling schedule whose damped momentum went below end_momentum and was
\* annealed back toward it
C26_Witness ==
    /\ Training /\ i_epoch = 2
    /\ arg.start_momentum = One /\ arg.end_momentum = <<1, 2>>
    /\ RLess(Zero, momentum) /\ RLess(momentum, arg.end_momentum)

\* a rising schedule whose momentum was annealed above start_momentum
C26_WitnessRising ==
    /\ Training /\ i_epoch = 2
    /\ arg.start_momentum = <<1, 2>> /\ arg.end_momentum = <<9, 10>>
    /\ RLess(arg.start_momentum, momentum) /\ RLess(momentum, arg.end_momentum)

\* a start_momentum below zero puts momentum outside the interval
C26_NegativeStartUnbounded ==
    /\ Training /\ momentum # Uninit /\ ~NonNegativeMomenta
    /\ ~MomentumBounded(momentum)

====
